---- MODULE Spec2Model ----
(***************************************************************************)
(* FinTrack backend: the family/permission resolvers, the budget resolvers *)
(* and the transaction resolvers, as state machines over the database      *)
(* tables they read and write.                                             *)
(*                                                                         *)
(* Conventions.  A table is a set of rows (records).  Row ids come from a  *)
(* bounded pool and a create takes the least free id.  Strings that the    *)
(* code inspects character by character (emails, names) are tuples of      *)
(* one-character strings.  The id of a member row is the pair of its       *)
(* family and user, which the unique index on (familyId, userId) makes     *)
(* unique.  An operation is an operator from the tables     *)
(* and the request to the response and the new tables; the action applies  *)
(* it to the current state and records the response in `last`.             *)
(***************************************************************************)
EXTENDS Integers, Sequences, FiniteSets, TLC

VARIABLES
    families,       \* table "families": rows [id, name, createdBy]
    members,        \* table "family_members": rows [id, familyId, userId, role, permissions]
    categories,     \* table "categories": rows [id, userId, isDefault, type, name]
    budgets,        \* table "budgets": rows [id, categoryId, amount, period,
                    \*   startDate, endDate, userId, familyId]
    transactions,   \* table "transactions": rows [id, amount, description, type,
                    \*   date, categoryId, userId, familyId]
    shoppingLists,  \* table "shopping_lists": rows [id, userId, familyId, name,
                    \*   shared, sharedWith]
    items,          \* table "shopping_list_items": rows [id, listId, name,
                    \*   estimatedPrice, actualPrice, categoryId, purchased,
                    \*   purchasedBy, transactionId]
    users,          \* table "users": rows [id, email] and, once registered through
                    \*   the API, [id, email, name, password]
    reqs,           \* the processes in flight: concurrent requests, the startup
    last            \* the last request handled and the error or Ok it answered

vars ==
    <<families, members, categories, budgets, transactions, shoppingLists, items, users,
      reqs, last>>

----------------------------------------------------------------------------
(* Identifiers *)

\* the ids a new row of table "families" can get
FamilyPool == {1}

\* the family ids a request can name
FamilyIds == FamilyPool

----------------------------------------------------------------------------
(* Values shared by the resolvers *)

\* a findFirst / findUnique that matches no row
Null == [null |-> TRUE]

\* first row of a result set, or null
FindFirst(rows) == IF rows = {} THEN Null ELSE CHOOSE r \in rows : TRUE

\* the family column of a row that belongs to no family (SQL NULL)
NoFamily == 0

\* least id of the pool that no row of the table uses; 0 when the pool is used up
FreshId(rows, pool) ==
    LET free == {i \in pool : \A r \in rows : r.id # i}
    IN IF free = {} THEN 0 ELSE CHOOSE i \in free : \A j \in free : i <= j

\* the id of a new row of table "family_members"
MemberId(familyId, userId) == <<familyId, userId>>

\* AppError(message, statusCode, errorCode); errorHandler maps a missing
\* errorCode to APP_ERROR
AppError(message, statusCode, errorCode) ==
    [status |-> statusCode, code |-> errorCode, message |-> message]

Ok == [status |-> 200, code |-> "OK", message |-> <<>>]

\* the users: ids of the rows of table "users"
Users == {"u1", "u2", "u3"}

UserEmail ==
    [u \in Users |->
        CASE u = "u1" -> <<"a", "@", "x", ".", "y">>
          [] u = "u2" -> <<"b", "@", "x", ".", "y">>
          [] u = "u3" -> <<"c", "@", "x", ".", "y">>]

\* table "users": rows [id, email]; emails are stored in lower case
UsersTable == {[id |-> u, email |-> UserEmail[u]] : u \in Users}

\* input.field !== undefined
Has(input, field) == field \in DOMAIN input

\* String.prototype.toLowerCase over the alphabet of the model
LowerChar(c) ==
    CASE c = "A" -> "a" [] c = "B" -> "b" [] c = "C" -> "c"
      [] c = "X" -> "x" [] c = "Y" -> "y" [] OTHER -> c

ToLowerCase(s) == [i \in 1..Len(s) |-> LowerChar(s[i])]

\* /^[^\s@]+@[^\s@]+\.[^\s@]+$/.test(s)
EmailRegexTest(s) ==
    \E i \in 1..Len(s) :
        /\ s[i] = "@"
        /\ i > 1
        /\ \A k \in 1..(i - 1) : s[k] \notin {" ", "@"}
        /\ \A k \in (i + 1)..Len(s) : s[k] \notin {" ", "@"}
        /\ \E j \in (i + 2)..(Len(s) - 1) : s[j] = "."

\* String.prototype.trim
RECURSIVE TrimStart(_)
TrimStart(s) == IF s # <<>> /\ Head(s) = " " THEN TrimStart(Tail(s)) ELSE s

RECURSIVE TrimEnd(_)
TrimEnd(s) ==
    IF s # <<>> /\ s[Len(s)] = " " THEN TrimEnd(SubSeq(s, 1, Len(s) - 1)) ELSE s

Trim(s) == TrimEnd(TrimStart(s))

----------------------------------------------------------------------------
(* FamilyResolver *)

Roles == {"ADMIN", "MEMBER", "VIEWER"}

\* validPermissions of validateFamilyPermissions: the permission vocabulary
ValidPermissions ==
    {"VIEW", "ADD_TRANSACTIONS", "EDIT_TRANSACTIONS", "DELETE_TRANSACTIONS",
     "MANAGE_BUDGETS", "MANAGE_SHOPPING_LISTS", "MANAGE_MEMBERS", "VIEW_REPORTS"}

\* the permission list createFamily gives the creator
CreatorPermissions ==
    {"VIEW", "ADD_TRANSACTIONS", "EDIT_TRANSACTIONS", "MANAGE_BUDGETS", "MANAGE_MEMBERS"}

MaxFamilyNameLength == 100

\* prisma.familyMember.findFirst({ where: { familyId, userId } })
FindMembership(mem, familyId, userId) ==
    FindFirst({m \in mem : m.familyId = familyId /\ m.userId = userId})

\* prisma.familyMember.findFirst({ where: { id: memberId, familyId } })
FindMemberById(mem, memberId, familyId) ==
    FindFirst({m \in mem : m.id = memberId /\ m.familyId = familyId})

\* prisma.familyMember.count({ where: { familyId, role: ADMIN } })
AdminCount(mem, familyId) ==
    Cardinality({m \in mem : m.familyId = familyId /\ m.role = "ADMIN"})

\* verifyFamilyAdmin: the thrown error, or Ok
VerifyFamilyAdmin(mem, familyId, userId) ==
    LET membership ==
            FindFirst({m \in mem : /\ m.familyId = familyId
                                   /\ m.userId = userId
                                   /\ m.role = "ADMIN"})
    IN IF membership = Null
       THEN AppError(<<"Access denied. Admin privileges required.">>, 403, "APP_ERROR")
       ELSE Ok

VerifyFamilyPermissionNoAdminBypass(mem, familyId, userId, permission) ==
    LET membership == FindMembership(mem, familyId, userId)
    IN IF membership = Null
       THEN AppError(<<"Family not found or access denied">>, 404, "APP_ERROR")
       ELSE IF permission \notin membership.permissions
            THEN AppError(<<"Access denied. ", permission, " permission required.">>,
                          403, "APP_ERROR")
            ELSE Ok

\* verifyFamilyPermission: the thrown error, or Ok
VerifyFamilyPermission(mem, familyId, userId, permission) ==
    LET membership == FindMembership(mem, familyId, userId)
    IN IF membership = Null
       THEN AppError(<<"Family not found or access denied">>, 404, "APP_ERROR")
       ELSE IF membership.role = "ADMIN"
            THEN Ok
            ELSE IF permission \notin membership.permissions
                 THEN AppError(<<"Access denied. ", permission, " permission required.">>,
                               403, "APP_ERROR")
                 ELSE Ok

\* a response that leaves the tables as they are
Reply(fams, mem, result, data) ==
    [result |-> result, data |-> data, families |-> fams, members |-> mem]

\* query family(id)
FamilyQuery(fams, mem, caller, id) ==
    LET familyMember == FindMembership(mem, id, caller)
        family == FindFirst({f \in fams : f.id = id})
    IN IF familyMember = Null
       THEN Reply(fams, mem,
                  AppError(<<"Family not found or access denied">>, 404, "APP_ERROR"), Null)
       ELSE IF family = Null
            THEN Reply(fams, mem, Ok, Null)
            ELSE Reply(fams, mem, Ok,
                       [family |-> family, members |-> {m \in mem : m.familyId = id}])

\* mutation createFamily(input)
CreateFamilyOp(fams, mem, caller, name) ==
    IF Trim(name) = <<>>
    THEN Reply(fams, mem,
               AppError(<<"Family name is required">>, 400, "VALIDATION_ERROR"), Null)
    ELSE IF Len(Trim(name)) > MaxFamilyNameLength
    THEN Reply(fams, mem,
               AppError(<<"Family name must be 100 characters or less">>, 400,
                        "VALIDATION_ERROR"), Null)
    ELSE LET family == [id |-> FreshId(fams, FamilyPool), name |-> Trim(name),
                        createdBy |-> caller]
             member == [id |-> MemberId(family.id, caller), familyId |-> family.id,
                        userId |-> caller, role |-> "ADMIN",
                        permissions |-> CreatorPermissions]
         IN [result |-> Ok, data |-> [family |-> family, members |-> {member}],
             families |-> fams \cup {family}, members |-> mem \cup {member}]

\* mutation updateFamily(id, input)
UpdateFamilyOp(fams, mem, caller, id, input) ==
    LET admin == VerifyFamilyAdmin(mem, id, caller)
        family == FindFirst({f \in fams : f.id = id})
    IN IF admin # Ok
       THEN Reply(fams, mem, admin, Null)
       ELSE IF Has(input, "name") /\ Trim(input.name) = <<>>
       THEN Reply(fams, mem,
                  AppError(<<"Family name cannot be empty">>, 400, "VALIDATION_ERROR"), Null)
       ELSE IF Has(input, "name") /\ Len(Trim(input.name)) > MaxFamilyNameLength
       THEN Reply(fams, mem,
                  AppError(<<"Family name must be 100 characters or less">>, 400,
                           "VALIDATION_ERROR"), Null)
       ELSE LET updated == IF Has(input, "name")
                           THEN [family EXCEPT !.name = Trim(input.name)]
                           ELSE family
            IN [result |-> Ok, data |-> updated,
                families |-> (fams \ {family}) \cup {updated}, members |-> mem]

InviteMemberOpAnyMember(fams, mem, caller, familyId, input) ==
    LET invitedUser ==
            FindFirst({u \in UsersTable : u.email = ToLowerCase(input.email)})
    IN IF FindMembership(mem, familyId, caller) = Null
       THEN Reply(fams, mem,
                  AppError(<<"Family not found or access denied">>, 404, "APP_ERROR"), Null)
       ELSE IF ~EmailRegexTest(input.email) \/ invitedUser = Null
       THEN Reply(fams, mem,
                  AppError(<<"Invalid email address">>, 400, "VALIDATION_ERROR"), Null)
       ELSE IF FindMembership(mem, familyId, invitedUser.id) # Null
       THEN Reply(fams, mem,
                  AppError(<<"User is already a member of this family">>, 409,
                           "ALREADY_MEMBER"), Null)
       ELSE [result |-> Ok, data |-> TRUE, families |-> fams,
             members |-> mem \cup {[id |-> MemberId(familyId, invitedUser.id),
                                    familyId |-> familyId, userId |-> invitedUser.id,
                                    role |-> input.role,
                                    permissions |-> input.permissions]}]

\* mutation inviteMember(familyId, input)
InviteMemberOp(fams, mem, caller, familyId, input) ==
    LET allowed == VerifyFamilyPermission(mem, familyId, caller, "MANAGE_MEMBERS")
        invitedUser ==
            FindFirst({u \in UsersTable : u.email = ToLowerCase(input.email)})
    IN IF allowed # Ok
       THEN Reply(fams, mem, allowed, Null)
       ELSE IF ~EmailRegexTest(input.email)
       THEN Reply(fams, mem,
                  AppError(<<"Invalid email address">>, 400, "VALIDATION_ERROR"), Null)
       ELSE IF invitedUser = Null
       THEN Reply(fams, mem,
                  AppError(<<"User with this email address not found">>, 404,
                           "USER_NOT_FOUND"), Null)
       ELSE IF FindMembership(mem, familyId, invitedUser.id) # Null
       THEN Reply(fams, mem,
                  AppError(<<"User is already a member of this family">>, 409,
                           "ALREADY_MEMBER"), Null)
       ELSE LET member == [id |-> MemberId(familyId, invitedUser.id), familyId |-> familyId,
                           userId |-> invitedUser.id, role |-> input.role,
                           permissions |-> input.permissions]
            IN [result |-> Ok, data |-> TRUE,
                families |-> fams, members |-> mem \cup {member}]

UpdateMemberOpSelf(fams, mem, caller, familyId, memberId, input) ==
    LET allowed == VerifyFamilyPermission(mem, familyId, caller, "MANAGE_MEMBERS")
        member == FindMemberById(mem, memberId, familyId)
    IN IF allowed # Ok
       THEN Reply(fams, mem, allowed, Null)
       ELSE IF member = Null
       THEN Reply(fams, mem, AppError(<<"Family member not found">>, 404, "APP_ERROR"), Null)
       ELSE LET updatedMember ==
                    [member EXCEPT
                        !.role = IF Has(input, "role") THEN input.role ELSE @,
                        !.permissions = IF Has(input, "permissions")
                                        THEN input.permissions ELSE @]
            IN [result |-> Ok, data |-> updatedMember,
                families |-> fams, members |-> (mem \ {member}) \cup {updatedMember}]

\* mutation updateMember(familyId, memberId, input)
UpdateMemberOp(fams, mem, caller, familyId, memberId, input) ==
    LET allowed == VerifyFamilyPermission(mem, familyId, caller, "MANAGE_MEMBERS")
        member == FindMemberById(mem, memberId, familyId)
    IN IF allowed # Ok
       THEN Reply(fams, mem, allowed, Null)
       ELSE IF member = Null
       THEN Reply(fams, mem, AppError(<<"Family member not found">>, 404, "APP_ERROR"), Null)
       ELSE IF member.userId = caller
       THEN Reply(fams, mem,
                  AppError(<<"Cannot modify your own role or permissions">>, 400,
                           "SELF_MODIFICATION"), Null)
       ELSE LET updatedMember ==
                    [member EXCEPT
                        !.role = IF Has(input, "role") THEN input.role ELSE @,
                        !.permissions = IF Has(input, "permissions")
                                        THEN input.permissions ELSE @]
            IN [result |-> Ok, data |-> updatedMember,
                families |-> fams, members |-> (mem \ {member}) \cup {updatedMember}]

RemoveMemberOpNoAdminGuard(fams, mem, caller, familyId, memberId) ==
    LET member == FindMemberById(mem, memberId, familyId)
        allowed == IF member.userId # caller
                   THEN VerifyFamilyPermission(mem, familyId, caller, "MANAGE_MEMBERS")
                   ELSE Ok
    IN IF member = Null
       THEN Reply(fams, mem, AppError(<<"Family member not found">>, 404, "APP_ERROR"), Null)
       ELSE IF allowed # Ok
       THEN Reply(fams, mem, allowed, Null)
       ELSE [result |-> Ok, data |-> TRUE, families |-> fams, members |-> mem \ {member}]

\* mutation removeMember(familyId, memberId)
RemoveMemberOp(fams, mem, caller, familyId, memberId) ==
    LET member == FindMemberById(mem, memberId, familyId)
        allowed == IF member.userId # caller
                   THEN VerifyFamilyPermission(mem, familyId, caller, "MANAGE_MEMBERS")
                   ELSE Ok
    IN IF member = Null
       THEN Reply(fams, mem, AppError(<<"Family member not found">>, 404, "APP_ERROR"), Null)
       ELSE IF allowed # Ok
       THEN Reply(fams, mem, allowed, Null)
       ELSE IF member.role = "ADMIN" /\ AdminCount(mem, familyId) = 1
       THEN Reply(fams, mem,
                  AppError(<<"Cannot remove the last admin from the family">>, 400,
                           "LAST_ADMIN"), Null)
       ELSE [result |-> Ok, data |-> TRUE, families |-> fams, members |-> mem \ {member}]

\* mutation leaveFamily(familyId)
LeaveFamilyOp(fams, mem, caller, familyId) ==
    LET membership == FindMembership(mem, familyId, caller)
    IN IF membership = Null
       THEN Reply(fams, mem,
                  AppError(<<"You are not a member of this family">>, 404, "APP_ERROR"), Null)
       ELSE IF membership.role = "ADMIN" /\ AdminCount(mem, familyId) = 1
       THEN Reply(fams, mem,
                  AppError(<<"Cannot leave family as the last admin. Transfer admin role first.">>,
                           400, "LAST_ADMIN"), Null)
       ELSE [result |-> Ok, data |-> TRUE,
             families |-> fams, members |-> mem \ {membership}]

\* mutation deleteFamily(id); the delete cascades to the family's member rows
DeleteFamilyOp(fams, mem, caller, id) ==
    LET admin == VerifyFamilyAdmin(mem, id, caller)
    IN IF admin # Ok
       THEN Reply(fams, mem, admin, Null)
       ELSE [result |-> Ok, data |-> TRUE,
             families |-> {f \in fams : f.id # id},
             members |-> {m \in mem : m.familyId # id}]

----------------------------------------------------------------------------
(* Dates.  A date is a whole number of days since the start of year 0 of a  *)
(* calendar of MonthsPerYear months of DaysPerMonth days.                   *)

DaysPerMonth == 2

MonthsPerYear == 2

DaysPerYear == DaysPerMonth * MonthsPerYear

\* date-fns endOfMonth: the last instant of the month of the date
EndOfMonth(date) == (date \div DaysPerMonth) * DaysPerMonth + DaysPerMonth - 1

\* date-fns endOfYear: the last instant of the year of the date
EndOfYear(date) == (date \div DaysPerYear) * DaysPerYear + DaysPerYear - 1

\* date-fns format(date, 'MMM yyyy'): the month and year of the date
FormatMonth(date) == <<(date \div DaysPerMonth) % MonthsPerYear, date \div DaysPerYear>>

----------------------------------------------------------------------------
(* BudgetResolver *)

\* the userId of a default category (SQL NULL)
NoUser == "none"

\* the arguments period / familyId of a query that leaves them out
NoPeriod == "none"

Periods == {"MONTHLY", "YEARLY"}

\* prisma.category.findFirst({ where: { id, OR: [{ userId }, { isDefault: true }] } })
FindVisibleCategory(cats, categoryId, caller) ==
    FindFirst({c \in cats : c.id = categoryId /\ (c.userId = caller \/ c.isDefault)})

\* prisma.budget.findFirst({ where: { id, userId } })
FindOwnBudget(buds, id, caller) ==
    FindFirst({b \in buds : b.id = id /\ b.userId = caller})

\* the sum of the amounts of a set of rows
RECURSIVE SumAmount(_)
SumAmount(rows) ==
    IF rows = {} THEN 0
    ELSE LET r == CHOOSE x \in rows : TRUE IN r.amount + SumAmount(rows \ {r})

CalculateSpentAmountAnyType(txs, budget) ==
    SumAmount({t \in txs :
        /\ t.categoryId = budget.categoryId
        /\ t.userId = budget.userId
        /\ t.familyId = budget.familyId
        /\ t.date >= budget.startDate
        /\ t.date <= budget.endDate})

\* calculateSpentAmount: transaction.aggregate _sum.amount, 0 when null
CalculateSpentAmount(txs, budget) ==
    SumAmount({t \in txs :
        /\ t.categoryId = budget.categoryId
        /\ t.userId = budget.userId
        /\ t.familyId = budget.familyId
        /\ t.type = "EXPENSE"
        /\ t.date >= budget.startDate
        /\ t.date <= budget.endDate})

\* percentage = budget.amount > 0 ? (spent / budget.amount) * 100 : 0, kept as
\* the fraction num / den
Percentage(spent, amount) ==
    IF amount > 0 THEN [num |-> spent * 100, den |-> amount] ELSE [num |-> 0, den |-> 1]

StatusStrict(percentage) ==
    IF percentage.num > 100 * percentage.den THEN "danger"
    ELSE IF percentage.num > 80 * percentage.den THEN "warning"
    ELSE "good"

\* status: 'danger' from 100, 'warning' from 80, else 'good'
Status(percentage) ==
    IF percentage.num >= 100 * percentage.den THEN "danger"
    ELSE IF percentage.num >= 80 * percentage.den THEN "warning"
    ELSE "good"

\* the budget with its virtual fields, as the four budget operations return it
WithCalculations(txs, budget) ==
    LET spent == CalculateSpentAmount(txs, budget)
        percentage == Percentage(spent, budget.amount)
    IN [budget |-> budget, spent |-> spent, remaining |-> budget.amount - spent,
        percentage |-> percentage, status |-> Status(percentage)]

OverlapFilterStartOnly(b, startDate, endDate) ==
    b.startDate <= startDate /\ b.endDate >= startDate

\* the three-branch OR filter of createBudget's overlap query
OverlapFilter(b, startDate, endDate) ==
    \/ b.startDate <= startDate /\ b.endDate >= startDate
    \/ b.startDate <= endDate /\ b.endDate >= endDate
    \/ b.startDate >= startDate /\ b.endDate <= endDate

\* createBudget: prisma.budget.findFirst of a budget that overlaps the input
FindOverlappingBudget(buds, caller, input, endDate) ==
    FindFirst({b \in buds :
        /\ b.categoryId = input.categoryId
        /\ b.userId = caller
        /\ b.familyId = input.familyId
        /\ b.period = input.period
        /\ OverlapFilter(b, input.startDate, endDate)})

\* budgets_categoryId_userId_familyId_period_startDate_key: the row clashes
\* with another row on the unique index (rows with a NULL familyId never clash)
UniqueKeyClash(buds, row) ==
    /\ row.familyId # NoFamily
    /\ \E b \in buds :
        /\ b.id # row.id
        /\ b.categoryId = row.categoryId
        /\ b.userId = row.userId
        /\ b.familyId = row.familyId
        /\ b.period = row.period
        /\ b.startDate = row.startDate

\* errorHandler's response to Prisma's P2002 (unique constraint failed)
PrismaP2002 ==
    [status |-> 400, code |-> "P2002",
     message |-> <<"A record with this information already exists">>]

\* a budget response that leaves the table as it is
BudgetReply(buds, result, data) == [result |-> result, data |-> data, budgets |-> buds]

\* query budgets(period, familyId)
BudgetsQuery(mem, buds, txs, caller, period, familyId) ==
    IF familyId # NoFamily /\ FindMembership(mem, familyId, caller) = Null
    THEN BudgetReply(buds, AppError(<<"Access denied to family">>, 403, "APP_ERROR"), Null)
    ELSE BudgetReply(buds, Ok,
            {WithCalculations(txs, b) : b \in {x \in buds :
                /\ x.userId = caller
                /\ (period # NoPeriod => x.period = period)
                /\ (familyId # NoFamily => x.familyId = familyId)}})

\* query budget(id)
BudgetQuery(buds, txs, caller, id) ==
    LET budget == FindOwnBudget(buds, id, caller)
    IN IF budget = Null
       THEN BudgetReply(buds, Ok, Null)
       ELSE BudgetReply(buds, Ok, WithCalculations(txs, budget))

\* createBudget up to the overlap query: the thrown error, or Ok
CreateBudgetCheck(cats, buds, caller, input) ==
    LET endDate == IF input.period = "MONTHLY"
                   THEN EndOfMonth(input.startDate) ELSE EndOfYear(input.startDate)
        existingBudget == FindOverlappingBudget(buds, caller, input, endDate)
    IN IF input.amount <= 0
       THEN AppError(<<"Budget amount must be greater than 0">>, 400, "VALIDATION_ERROR")
       ELSE IF FindVisibleCategory(cats, input.categoryId, caller) = Null
       THEN AppError(<<"Category not found">>, 404, "APP_ERROR")
       ELSE IF existingBudget # Null
       THEN AppError(<<"A budget for this category and period already exists",
                       FormatMonth(existingBudget.startDate),
                       FormatMonth(existingBudget.endDate)>>,
                     409, "BUDGET_EXISTS")
       ELSE Ok

CreateBudgetInsertExcluding(mem, buds, txs, caller, input, ids) ==
    LET endDate == IF input.period = "MONTHLY"
                   THEN EndOfMonth(input.startDate) ELSE EndOfYear(input.startDate)
        budget == [id |-> FreshId(buds, ids), categoryId |-> input.categoryId,
                   amount |-> input.amount, period |-> input.period,
                   startDate |-> input.startDate, endDate |-> endDate,
                   userId |-> caller, familyId |-> input.familyId]
    IN IF input.familyId # NoFamily /\ FindMembership(mem, input.familyId, caller) = Null
       THEN BudgetReply(buds, AppError(<<"Access denied to family">>, 403, "APP_ERROR"), Null)
       ELSE IF UniqueKeyClash(buds, budget)
               \/ FindOverlappingBudget(buds, caller, input, endDate) # Null
       THEN BudgetReply(buds, PrismaP2002, Null)
       ELSE [result |-> Ok, data |-> WithCalculations(txs, budget),
             budgets |-> buds \cup {budget}]

\* createBudget from the family check on: the insert and the returned budget
CreateBudgetInsert(mem, buds, txs, caller, input, ids) ==
    LET endDate == IF input.period = "MONTHLY"
                   THEN EndOfMonth(input.startDate) ELSE EndOfYear(input.startDate)
        budget == [id |-> FreshId(buds, ids), categoryId |-> input.categoryId,
                   amount |-> input.amount, period |-> input.period,
                   startDate |-> input.startDate, endDate |-> endDate,
                   userId |-> caller, familyId |-> input.familyId]
    IN IF input.familyId # NoFamily /\ FindMembership(mem, input.familyId, caller) = Null
       THEN BudgetReply(buds, AppError(<<"Access denied to family">>, 403, "APP_ERROR"), Null)
       ELSE IF UniqueKeyClash(buds, budget)
       THEN BudgetReply(buds, PrismaP2002, Null)
       ELSE [result |-> Ok, data |-> WithCalculations(txs, budget),
             budgets |-> buds \cup {budget}]

\* mutation createBudget(input), handled without interleaving
CreateBudgetOp(cats, mem, buds, txs, caller, input, ids) ==
    LET check == CreateBudgetCheck(cats, buds, caller, input)
    IN IF check # Ok
       THEN BudgetReply(buds, check, Null)
       ELSE CreateBudgetInsert(mem, buds, txs, caller, input, ids)

UpdateBudgetOpKeepEndDate(buds, txs, caller, id, input) ==
    LET existingBudget == FindOwnBudget(buds, id, caller)
        budget == [existingBudget EXCEPT
                      !.amount = IF Has(input, "amount") THEN input.amount ELSE @,
                      !.period = IF Has(input, "period") THEN input.period ELSE @,
                      !.startDate = IF Has(input, "startDate") THEN input.startDate ELSE @]
    IN IF existingBudget = Null
       THEN BudgetReply(buds, AppError(<<"Budget not found">>, 404, "APP_ERROR"), Null)
       ELSE IF Has(input, "amount") /\ input.amount <= 0
       THEN BudgetReply(buds,
                AppError(<<"Budget amount must be greater than 0">>, 400,
                         "VALIDATION_ERROR"), Null)
       ELSE [result |-> Ok, data |-> WithCalculations(txs, budget),
             budgets |-> (buds \ {existingBudget}) \cup {budget}]

\* mutation updateBudget(id, input)
UpdateBudgetOp(buds, txs, caller, id, input) ==
    LET existingBudget == FindOwnBudget(buds, id, caller)
        \* endDate after `if (input.period !== undefined)`
        startDate1 == IF Has(input, "startDate")
                      THEN input.startDate ELSE existingBudget.startDate
        endDate1 == IF Has(input, "period")
                    THEN IF input.period = "MONTHLY"
                         THEN EndOfMonth(startDate1) ELSE EndOfYear(startDate1)
                    ELSE existingBudget.endDate
        \* endDate after `if (input.startDate !== undefined)`
        period2 == IF Has(input, "period") THEN input.period ELSE existingBudget.period
        endDate2 == IF Has(input, "startDate")
                    THEN IF period2 = "MONTHLY"
                         THEN EndOfMonth(input.startDate) ELSE EndOfYear(input.startDate)
                    ELSE endDate1
        budget == [existingBudget EXCEPT
                      !.amount = IF Has(input, "amount") THEN input.amount ELSE @,
                      !.period = IF Has(input, "period") THEN input.period ELSE @,
                      !.startDate = IF Has(input, "startDate") THEN input.startDate ELSE @,
                      !.endDate = endDate2]
    IN IF existingBudget = Null
       THEN BudgetReply(buds, AppError(<<"Budget not found">>, 404, "APP_ERROR"), Null)
       ELSE IF Has(input, "amount") /\ input.amount <= 0
       THEN BudgetReply(buds,
                AppError(<<"Budget amount must be greater than 0">>, 400,
                         "VALIDATION_ERROR"), Null)
       ELSE IF UniqueKeyClash(buds, budget)
       THEN BudgetReply(buds, PrismaP2002, Null)
       ELSE [result |-> Ok, data |-> WithCalculations(txs, budget),
             budgets |-> (buds \ {existingBudget}) \cup {budget}]

\* mutation deleteBudget(id)
DeleteBudgetOp(buds, caller, id) ==
    LET budget == FindOwnBudget(buds, id, caller)
    IN IF budget = Null
       THEN BudgetReply(buds, AppError(<<"Budget not found">>, 404, "APP_ERROR"), Null)
       ELSE [result |-> Ok, data |-> TRUE, budgets |-> buds \ {budget}]

----------------------------------------------------------------------------
(* TransactionResolver *)

TransactionTypes == {"INCOME", "EXPENSE"}

\* prisma.transaction.findFirst({ where: { id, userId } })
FindOwnTransaction(txs, id, caller) ==
    FindFirst({t \in txs : t.id = id /\ t.userId = caller})

\* a transaction response that leaves the table as it is
TransactionReply(txs, result, data) ==
    [result |-> result, data |-> data, transactions |-> txs]

\* mutation createTransaction(input)
CreateTransactionOp(cats, mem, txs, caller, input, ids) ==
    LET transaction ==
            [id |-> FreshId(txs, ids), amount |-> input.amount,
             description |-> Trim(input.description), type |-> input.type,
             date |-> input.date, categoryId |-> input.categoryId,
             userId |-> caller, familyId |-> input.familyId]
    IN IF input.amount <= 0
       THEN TransactionReply(txs,
                AppError(<<"Amount must be greater than 0">>, 400, "VALIDATION_ERROR"), Null)
       ELSE IF Trim(input.description) = <<>>
       THEN TransactionReply(txs,
                AppError(<<"Description is required">>, 400, "VALIDATION_ERROR"), Null)
       ELSE IF FindVisibleCategory(cats, input.categoryId, caller) = Null
       THEN TransactionReply(txs, AppError(<<"Category not found">>, 404, "APP_ERROR"), Null)
       ELSE IF input.familyId # NoFamily
               /\ FindMembership(mem, input.familyId, caller) = Null
       THEN TransactionReply(txs,
                AppError(<<"Access denied to family">>, 403, "APP_ERROR"), Null)
       ELSE [result |-> Ok, data |-> transaction, transactions |-> txs \cup {transaction}]

\* mutation updateTransaction(id, input)
UpdateTransactionOp(cats, txs, caller, id, input) ==
    LET existingTransaction == FindOwnTransaction(txs, id, caller)
        transaction ==
            [existingTransaction EXCEPT
                !.amount = IF Has(input, "amount") THEN input.amount ELSE @,
                !.description = IF Has(input, "description")
                                THEN Trim(input.description) ELSE @,
                !.type = IF Has(input, "type") THEN input.type ELSE @,
                !.date = IF Has(input, "date") THEN input.date ELSE @,
                !.categoryId = IF Has(input, "categoryId") THEN input.categoryId ELSE @]
    IN IF existingTransaction = Null
       THEN TransactionReply(txs,
                AppError(<<"Transaction not found">>, 404, "APP_ERROR"), Null)
       ELSE IF Has(input, "amount") /\ input.amount <= 0
       THEN TransactionReply(txs,
                AppError(<<"Amount must be greater than 0">>, 400, "VALIDATION_ERROR"), Null)
       ELSE IF Has(input, "description") /\ Trim(input.description) = <<>>
       THEN TransactionReply(txs,
                AppError(<<"Description cannot be empty">>, 400, "VALIDATION_ERROR"), Null)
       ELSE IF Has(input, "categoryId")
               /\ FindVisibleCategory(cats, input.categoryId, caller) = Null
       THEN TransactionReply(txs, AppError(<<"Category not found">>, 404, "APP_ERROR"), Null)
       ELSE [result |-> Ok, data |-> transaction,
             transactions |-> (txs \ {existingTransaction}) \cup {transaction}]

\* mutation deleteTransaction(id)
DeleteTransactionOp(txs, caller, id) ==
    LET transaction == FindOwnTransaction(txs, id, caller)
    IN IF transaction = Null
       THEN TransactionReply(txs,
                AppError(<<"Transaction not found">>, 404, "APP_ERROR"), Null)
       ELSE [result |-> Ok, data |-> TRUE, transactions |-> txs \ {transaction}]

----------------------------------------------------------------------------
(* Requests of the family specification *)

LongName == [i \in 1..(MaxFamilyNameLength + 1) |-> "n"]

CreateFamilyInputs == {<<"H">>, <<" ">>, LongName}

UpdateFamilyInputs == {[name |-> <<" ", "H", " ">>], [name |-> <<>>], <<>>}

\* the emails of the three users (one in upper case), of nobody, and no email
InviteEmails == {UserEmail["u1"], UserEmail["u2"], <<"C", "@", "X", ".", "Y">>}

BadEmails == {<<"z", "@", "x", ".", "y">>, <<"b", "x", ".", "y">>}

InviteMemberInputs ==
    {[email |-> e, role |-> rp[1], permissions |-> rp[2]] :
        e \in InviteEmails,
        rp \in {<<"ADMIN", {}>>, <<"MEMBER", {}>>, <<"MEMBER", {"MANAGE_MEMBERS"}>>,
                <<"VIEWER", {"MANAGE_MEMBERS"}>>}}
    \cup {[email |-> e, role |-> "MEMBER", permissions |-> {}] : e \in BadEmails}

UpdateMemberInputs ==
    {[role |-> "ADMIN"], [role |-> "MEMBER"], [permissions |-> {}],
     [role |-> "VIEWER", permissions |-> {"MANAGE_MEMBERS"}], <<>>}

NoMember == MemberId(0, "none")

\* the member ids a request can name: those of the pool and one of no row
MemberIds == {MemberId(f, u) : f \in FamilyPool, u \in Users} \cup {NoMember}

\* budgets_familyId_fkey, transactions_familyId_fkey (ON DELETE CASCADE): the
\* rows left when only the families fams exist
CascadeFamily(rows, fams) ==
    {x \in rows : x.familyId = NoFamily \/ \E f \in fams : f.id = x.familyId}

\* the id of no transaction (SQL NULL)
NoTransaction == 0

\* shopping_list_items_listId_fkey (ON DELETE CASCADE): the items left when
\* only the lists exist
CascadeList(its, lists) == {i \in its : \E l \in lists : l.id = i.listId}

\* shopping_list_items_transactionId_fkey (ON DELETE SET NULL): the items when
\* only the transactions txs exist
UnlinkTransactions(its, txs) ==
    {IF i.transactionId = NoTransaction \/ \E t \in txs : t.id = i.transactionId
     THEN i ELSE [i EXCEPT !.transactionId = NoTransaction] : i \in its}

\* the family tables after an operation and the record of the request
Handled(op, r) ==
    /\ families' = r.families
    /\ members' = r.members
    /\ budgets' = CascadeFamily(budgets, r.families)
    /\ transactions' = CascadeFamily(transactions, r.families)
    /\ shoppingLists' = CascadeFamily(shoppingLists, r.families)
    /\ items' = UnlinkTransactions(
                    CascadeList(items, CascadeFamily(shoppingLists, r.families)),
                    CascadeFamily(transactions, r.families))
    /\ last' = [op |-> op, result |-> r.result]
    /\ UNCHANGED <<categories, reqs, users>>

Family(caller, id) ==
    /\ caller \in Users
    /\ Handled("family", FamilyQuery(families, members, caller, id))

CreateFamily(caller, name) ==
    /\ FreshId(families, FamilyPool) # 0
    /\ Handled("createFamily", CreateFamilyOp(families, members, caller, name))

UpdateFamily(caller, id, input) ==
    /\ caller \in Users
    /\ Handled("updateFamily", UpdateFamilyOp(families, members, caller, id, input))

InviteMember(caller, familyId, input) ==
    /\ caller \in Users
    /\ Handled("inviteMember",
               InviteMemberOp(families, members, caller, familyId, input))

UpdateMember(caller, familyId, memberId, input) ==
    /\ caller \in Users
    /\ Handled("updateMember",
               UpdateMemberOp(families, members, caller, familyId, memberId, input))

RemoveMember(caller, familyId, memberId) ==
    /\ caller \in Users
    /\ Handled("removeMember",
               RemoveMemberOp(families, members, caller, familyId, memberId))

LeaveFamily(caller, familyId) ==
    /\ caller \in Users
    /\ Handled("leaveFamily", LeaveFamilyOp(families, members, caller, familyId))

DeleteFamily(caller, id) ==
    /\ caller \in Users
    /\ Handled("deleteFamily", DeleteFamilyOp(families, members, caller, id))

NoRequest ==
    [op |-> "none", result |-> Ok]

Init ==
    /\ families = {}
    /\ members = {}
    /\ categories = {}
    /\ budgets = {}
    /\ transactions = {}
    /\ shoppingLists = {}
    /\ items = {}
    /\ reqs = <<>>
    /\ users = UsersTable
    /\ last = NoRequest

Next ==
    \E caller \in Users :
        \/ \E name \in CreateFamilyInputs : CreateFamily(caller, name)
        \/ \E id \in FamilyIds :
            \/ Family(caller, id)
            \/ \E input \in UpdateFamilyInputs : UpdateFamily(caller, id, input)
            \/ \E input \in InviteMemberInputs : InviteMember(caller, id, input)
            \/ \E memberId \in MemberIds, input \in UpdateMemberInputs :
                    UpdateMember(caller, id, memberId, input)
            \/ \E memberId \in MemberIds : RemoveMember(caller, id, memberId)
            \/ LeaveFamily(caller, id)
            \/ DeleteFamily(caller, id)

Spec == Init /\ [][Next]_vars

----------------------------------------------------------------------------
(* Requests of the budget specification: budgets created, updated, deleted *)
(* and read one request at a time, over seeded categories and one family   *)

MaxBudgets == 2         \* ids in the pool of table "budgets"

MaxDate == 3            \* the dates of the requests are 0..MaxDate

BudgetIds == 1..MaxBudgets

Dates == 0..MaxDate

\* categories: one of u1, a default one, one of u2
SeedCategories ==
    {[id |-> 1, userId |-> "u1", isDefault |-> FALSE, type |-> "EXPENSE",
      name |-> <<"a">>],
     [id |-> 2, userId |-> NoUser, isDefault |-> TRUE, type |-> "EXPENSE",
      name |-> <<"b">>],
     [id |-> 3, userId |-> "u2", isDefault |-> FALSE, type |-> "EXPENSE",
      name |-> <<"a">>]}

\* the family that u1 created
SeedFamily == CreateFamilyOp({}, {}, "u1", <<"H">>)

BudgetCallers == {"u1", "u2"}

CreateBudgetInputs ==
    {[categoryId |-> 1, amount |-> 5, period |-> "MONTHLY", startDate |-> d,
      familyId |-> NoFamily] : d \in Dates}
    \cup {[categoryId |-> 1, amount |-> 5, period |-> p, startDate |-> 0,
           familyId |-> f] : p \in Periods, f \in {NoFamily, 1}}
    \cup {[categoryId |-> c, amount |-> a, period |-> "MONTHLY", startDate |-> 0,
           familyId |-> NoFamily] : c \in {2, 3}, a \in {0, 5}}

UpdateBudgetInputs ==
    {[startDate |-> d] : d \in Dates}
    \cup {[period |-> "YEARLY"], [period |-> "MONTHLY", startDate |-> 1],
          [amount |-> 0], [amount |-> 5], <<>>}

\* the budget table after an operation and the record of the request
HandledBudget(op, r) ==
    /\ budgets' = r.budgets
    /\ last' = [op |-> op, result |-> r.result]
    /\ UNCHANGED <<families, members, categories, transactions, shoppingLists, items,
                   reqs, users>>

Budgets(caller, period, familyId) ==
    /\ caller \in Users
    /\ HandledBudget("budgets",
            BudgetsQuery(members, budgets, transactions, caller, period, familyId))

Budget(caller, id) ==
    /\ caller \in Users
    /\ HandledBudget("budget", BudgetQuery(budgets, transactions, caller, id))

CreateBudget(caller, input) ==
    /\ FreshId(budgets, BudgetIds) # 0
    /\ HandledBudget("createBudget",
            CreateBudgetOp(categories, members, budgets, transactions, caller, input,
                           BudgetIds))

UpdateBudget(caller, id, input) ==
    /\ caller \in Users
    /\ HandledBudget("updateBudget",
            UpdateBudgetOp(budgets, transactions, caller, id, input))

DeleteBudget(caller, id) ==
    /\ caller \in Users
    /\ HandledBudget("deleteBudget", DeleteBudgetOp(budgets, caller, id))

InitBudget ==
    /\ families = SeedFamily.families
    /\ members = SeedFamily.members
    /\ categories = SeedCategories
    /\ budgets = {}
    /\ transactions = {}
    /\ shoppingLists = {}
    /\ items = {}
    /\ reqs = <<>>
    /\ users = UsersTable
    /\ last = NoRequest

NextBudget ==
    \E caller \in BudgetCallers :
        \/ \E period \in Periods \cup {NoPeriod}, familyId \in {NoFamily, 1} :
                Budgets(caller, period, familyId)
        \/ \E input \in CreateBudgetInputs : CreateBudget(caller, input)
        \/ \E id \in BudgetIds :
            \/ Budget(caller, id)
            \/ \E input \in UpdateBudgetInputs : UpdateBudget(caller, id, input)
            \/ DeleteBudget(caller, id)

SpecBudget == InitBudget /\ [][NextBudget]_vars

----------------------------------------------------------------------------
(* Requests of the spending specification: budgets and transactions         *)
(* created, updated, deleted and read one request at a time                 *)

MaxTransactions == 2    \* ids in the pool of table "transactions"

TransactionIds == 1..MaxTransactions

SpentBudgetInputs ==
    {[categoryId |-> 1, amount |-> 5, period |-> "MONTHLY", startDate |-> 0,
      familyId |-> NoFamily],
     [categoryId |-> 1, amount |-> 5, period |-> "MONTHLY", startDate |-> 0,
      familyId |-> 1],
     [categoryId |-> 2, amount |-> 5, period |-> "YEARLY", startDate |-> 2,
      familyId |-> NoFamily]}

SpentBudgetUpdates == {[startDate |-> DaysPerMonth]}

CreateTransactionInputs ==
    LET base == [amount |-> 4, description |-> <<"d">>, type |-> "EXPENSE",
                 date |-> 0, categoryId |-> 1, familyId |-> NoFamily]
    IN {base,
        [base EXCEPT !.amount = 1],
        [base EXCEPT !.amount = 0],
        [base EXCEPT !.description = <<" ">>],
        [base EXCEPT !.type = "INCOME"],
        [base EXCEPT !.date = DaysPerMonth],
        [base EXCEPT !.categoryId = 2],
        [base EXCEPT !.familyId = 1]}

UpdateTransactionInputs ==
    {[amount |-> 1, date |-> DaysPerMonth], [amount |-> 0], [categoryId |-> 3],
     [description |-> <<" ">>]}

\* the transaction table after an operation and the record of the request
HandledTransaction(op, r) ==
    /\ transactions' = r.transactions
    /\ items' = UnlinkTransactions(items, r.transactions)
    /\ last' = [op |-> op, result |-> r.result]
    /\ UNCHANGED <<families, members, categories, budgets, shoppingLists, reqs, users>>

CreateTransaction(caller, input) ==
    /\ FreshId(transactions, TransactionIds) # 0
    /\ HandledTransaction("createTransaction",
            CreateTransactionOp(categories, members, transactions, caller, input,
                                TransactionIds))

UpdateTransaction(caller, id, input) ==
    /\ caller \in Users
    /\ HandledTransaction("updateTransaction",
            UpdateTransactionOp(categories, transactions, caller, id, input))

DeleteTransaction(caller, id) ==
    /\ caller \in Users
    /\ HandledTransaction("deleteTransaction",
            DeleteTransactionOp(transactions, caller, id))

NextSpent ==
    \/ \E caller \in {"u1"} :
        \/ \E period \in Periods \cup {NoPeriod}, familyId \in {NoFamily, 1} :
                Budgets(caller, period, familyId)
        \/ \E input \in SpentBudgetInputs : CreateBudget(caller, input)
        \/ \E id \in BudgetIds :
            \/ Budget(caller, id)
            \/ \E input \in SpentBudgetUpdates : UpdateBudget(caller, id, input)
            \/ DeleteBudget(caller, id)
    \/ \E caller \in BudgetCallers :
        \/ \E input \in CreateTransactionInputs : CreateTransaction(caller, input)
        \/ \E id \in TransactionIds :
            \/ \E input \in UpdateTransactionInputs : UpdateTransaction(caller, id, input)
            \/ DeleteTransaction(caller, id)

SpecSpent == InitBudget /\ [][NextSpent]_vars

----------------------------------------------------------------------------
(* Requests of the race specification: createBudget requests in flight at   *)
(* the same time.  Each request runs its reads up to the overlap query as   *)
(* one step and its family check and insert as a later step; the steps of   *)
(* different requests interleave.                                           *)

MaxRequests == 2        \* createBudget requests in flight

RequestIds == 1..MaxRequests

RaceBudgetInputs ==
    {[categoryId |-> 1, amount |-> 5, period |-> "MONTHLY", startDate |-> d,
      familyId |-> f] : d \in 0..DaysPerMonth, f \in {NoFamily, 1}}
    \cup {[categoryId |-> c, amount |-> 5, period |-> "YEARLY", startDate |-> 0,
           familyId |-> 1] : c \in {2, 3}}

\* createBudget up to `if (existingBudget)`: the request throws or goes on
CreateBudgetChecked(i, caller, input) ==
    /\ reqs[i].pc = "idle"
    /\ LET check == CreateBudgetCheck(categories, budgets, caller, input)
       IN /\ reqs' = [reqs EXCEPT ![i] =
                        IF check = Ok
                        THEN [pc |-> "checked", caller |-> caller, input |-> input]
                        ELSE [pc |-> "done"]]
          /\ last' = [op |-> "createBudget", result |-> check]
    /\ UNCHANGED <<families, members, categories, budgets, transactions, shoppingLists,
                   items, users>>

\* createBudget from `if (input.familyId)` on: the family check and the insert
CreateBudgetInserted(i) ==
    /\ reqs[i].pc = "checked"
    /\ FreshId(budgets, BudgetIds) # 0
    /\ LET r == CreateBudgetInsert(members, budgets, transactions, reqs[i].caller,
                                   reqs[i].input, BudgetIds)
       IN /\ budgets' = r.budgets
          /\ last' = [op |-> "createBudget", result |-> r.result]
    /\ reqs' = [reqs EXCEPT ![i] = [pc |-> "done"]]
    /\ UNCHANGED <<families, members, categories, transactions, shoppingLists, items, users>>

InitRace ==
    /\ families = SeedFamily.families
    /\ members = SeedFamily.members
    /\ categories = SeedCategories
    /\ budgets = {}
    /\ transactions = {}
    /\ shoppingLists = {}
    /\ items = {}
    /\ reqs = [i \in RequestIds |-> [pc |-> "idle"]]
    /\ users = UsersTable
    /\ last = NoRequest

NextRace ==
    \E i \in RequestIds :
        \/ \E caller \in BudgetCallers, input \in RaceBudgetInputs :
                CreateBudgetChecked(i, caller, input)
        \/ CreateBudgetInserted(i)

SpecRace == InitRace /\ [][NextRace]_vars

----------------------------------------------------------------------------
(* Properties of the family resolvers *)

\* the state of the database in which family f does not exist: its row gone
\* and, by the cascade, its member rows
FamiliesWithout(f) == {x \in families : x.id # f}

MembersWithout(f) == {m \in members : m.familyId # f}

IsMember(u, f) == \E m \in members : m.familyId = f /\ m.userId = u

\* u may manage the members of f: an ADMIN or a holder of MANAGE_MEMBERS
MayManageMembers(u, f) ==
    \E m \in members :
        /\ m.familyId = f
        /\ m.userId = u
        /\ (m.role = "ADMIN" \/ "MANAGE_MEMBERS" \in m.permissions)

NumAdmins(f) == Cardinality({m \in members : m.familyId = f /\ m.role = "ADMIN"})

\* C1: every existing family has at least one member whose role is ADMIN.
\* (Violated: a MEMBER holding MANAGE_MEMBERS demotes the only ADMIN with
\* updateMember, which has no last-admin guard.)
C1_EveryFamilyHasAdmin ==
    \A f \in families : \E m \in members : m.familyId = f.id /\ m.role = "ADMIN"

\* C2 as stated: removeMember aimed at the only ADMIN of a family fails with
\* LAST_ADMIN for every caller, and so does leaveFamily by that ADMIN; nothing
\* is deleted.  With two or more ADMINs the call of an allowed caller deletes
\* exactly that row.
C2_LastAdminForEveryCaller ==
    \A m \in members : \A caller \in Users :
        LET rm == RemoveMemberOp(families, members, caller, m.familyId, m.id)
            lv == LeaveFamilyOp(families, members, m.userId, m.familyId)
        IN m.role = "ADMIN" =>
            /\ NumAdmins(m.familyId) = 1 =>
                /\ rm.result.code = "LAST_ADMIN" /\ rm.members = members
                /\ lv.result.code = "LAST_ADMIN" /\ lv.members = members
            /\ (NumAdmins(m.familyId) >= 2
                    /\ (caller = m.userId \/ MayManageMembers(caller, m.familyId))) =>
                /\ rm.result = Ok /\ rm.members = members \ {m}
                /\ lv.result = Ok /\ lv.members = members \ {m}

\* C2 amended: the LAST_ADMIN failure of removeMember is that of a caller
\* allowed to make the call (the member themself, an ADMIN, or a holder of
\* MANAGE_MEMBERS); any other caller gets the access error of
\* verifyFamilyPermission instead.  In both cases nothing is deleted.  With
\* two or more ADMINs the allowed call deletes exactly that row.
C2_LastAdminGuard ==
    \A m \in members : \A caller \in Users :
        LET rm == RemoveMemberOp(families, members, caller, m.familyId, m.id)
            lv == LeaveFamilyOp(families, members, m.userId, m.familyId)
            allowed == caller = m.userId \/ MayManageMembers(caller, m.familyId)
        IN m.role = "ADMIN" =>
            /\ ~allowed =>
                /\ rm.result.status \in {403, 404}
                /\ rm.result.code # "LAST_ADMIN"
                /\ rm.members = members
            /\ NumAdmins(m.familyId) = 1 =>
                /\ allowed => (rm.result.code = "LAST_ADMIN" /\ rm.members = members)
                /\ lv.result.code = "LAST_ADMIN" /\ lv.members = members
            /\ NumAdmins(m.familyId) >= 2 =>
                /\ allowed => (rm.result = Ok /\ rm.members = members \ {m})
                /\ lv.result = Ok /\ lv.members = members \ {m}

\* a removeMember has just been refused with LAST_ADMIN in a family that has
\* other members besides its only ADMIN
C2_Witness ==
    /\ last.op = "removeMember"
    /\ last.result.code = "LAST_ADMIN"
    /\ \E f \in families : NumAdmins(f.id) = 1 /\ Cardinality(members) >= 2

\* C3: verifyFamilyPermission succeeds iff a member row of (family, user)
\* exists that is ADMIN or whose permission list holds the permission; an
\* ADMIN passes whatever the list holds, and no row always fails.
C3_VerifyFamilyPermission ==
    \A f \in FamilyIds : \A u \in Users : \A p \in ValidPermissions :
        LET v == VerifyFamilyPermission(members, f, u, p)
            rows == {m \in members : m.familyId = f /\ m.userId = u}
        IN /\ (v = Ok) <=> (\E m \in rows : m.role = "ADMIN" \/ p \in m.permissions)
           /\ (\E m \in rows : m.role = "ADMIN") => v = Ok
           /\ rows = {} => (v # Ok /\ v.status = 404)

\* an inviteMember has just succeeded in a family where nobody but ADMINs
\* could pass the check and no ADMIN's stored list holds MANAGE_MEMBERS
C3_Witness ==
    /\ last.op = "inviteMember"
    /\ last.result = Ok
    /\ \A m \in members : "MANAGE_MEMBERS" \notin m.permissions
    /\ \E m \in members : m.role = "ADMIN"

\* C4: inviteMember by a member who is not ADMIN and does not hold
\* MANAGE_MEMBERS fails with the 403 access error and leaves the member rows
\* as they are, for every email, role and permission list.
C4_InviteDenied ==
    \A f \in FamilyIds : \A caller \in Users :
        \A email \in InviteEmails \cup BadEmails :
        \A role \in Roles : \A perms \in SUBSET {"VIEW", "MANAGE_MEMBERS"} :
            LET r == InviteMemberOp(families, members, caller, f,
                                    [email |-> email, role |-> role,
                                     permissions |-> perms])
            IN (IsMember(caller, f) /\ ~MayManageMembers(caller, f)) =>
                /\ r.result.status = 403
                /\ r.result.message =
                       <<"Access denied. ", "MANAGE_MEMBERS", " permission required.">>
                /\ r.members = members
                /\ r.families = families

\* an inviteMember has just been refused with 403
C4_Witness ==
    /\ last.op = "inviteMember"
    /\ last.result.status = 403
    /\ \E f \in families, u \in Users : IsMember(u, f.id) /\ ~MayManageMembers(u, f.id)

\* C5: a caller who is not a member of family F gets, from every
\* family-scoped operation and for all arguments, the same response whether F
\* exists or not.
\* (Violated: removeMember looks the member row up before it checks the
\* caller, so a member id of F answers "Family not found or access denied"
\* where a family that does not exist answers "Family member not found".)
C5_NonMemberCannotTell ==
    \A f \in families : \A caller \in Users :
        ~IsMember(caller, f.id) =>
            LET fams0 == FamiliesWithout(f.id)
                mem0 == MembersWithout(f.id)
            IN /\ FamilyQuery(families, members, caller, f.id).result
                    = FamilyQuery(fams0, mem0, caller, f.id).result
               /\ \A input \in UpdateFamilyInputs :
                    UpdateFamilyOp(families, members, caller, f.id, input).result
                    = UpdateFamilyOp(fams0, mem0, caller, f.id, input).result
               /\ \A input \in InviteMemberInputs :
                    InviteMemberOp(families, members, caller, f.id, input).result
                    = InviteMemberOp(fams0, mem0, caller, f.id, input).result
               /\ \A id \in MemberIds, input \in UpdateMemberInputs :
                    UpdateMemberOp(families, members, caller, f.id, id, input).result
                    = UpdateMemberOp(fams0, mem0, caller, f.id, id, input).result
               /\ \A id \in MemberIds :
                    RemoveMemberOp(families, members, caller, f.id, id).result
                    = RemoveMemberOp(fams0, mem0, caller, f.id, id).result
               /\ LeaveFamilyOp(families, members, caller, f.id).result
                    = LeaveFamilyOp(fams0, mem0, caller, f.id).result
               /\ DeleteFamilyOp(families, members, caller, f.id).result
                    = DeleteFamilyOp(fams0, mem0, caller, f.id).result

----------------------------------------------------------------------------
(* Properties of the budget resolvers *)

\* two budgets of one (categoryId, userId, familyId, period)
SameGroup(a, b) ==
    /\ a.categoryId = b.categoryId
    /\ a.userId = b.userId
    /\ a.familyId = b.familyId
    /\ a.period = b.period

\* the windows [startDate, endDate] of two budgets intersect
Intersect(a, b) == a.startDate <= b.endDate /\ b.startDate <= a.endDate

\* the last day of the stretch of len days that holds the date
LastDayOf(date, len) ==
    CHOOSE d \in date..(date + len) : d \div len = date \div len /\ (d + 1) \div len # date \div len

\* the end that createBudget derives from a start and a period
ProposedEnd(input) ==
    IF input.period = "MONTHLY"
    THEN LastDayOf(input.startDate, DaysPerMonth)
    ELSE LastDayOf(input.startDate, DaysPerYear)

\* C6: no two stored budgets of one (categoryId, userId, familyId, period)
\* have intersecting [startDate, endDate] windows.
\* (Violated: updateBudget moves a window without any overlap check.)
C6_NoOverlappingBudgets ==
    \A a \in budgets : \A b \in budgets :
        (a.id # b.id /\ SameGroup(a, b)) => ~Intersect(a, b)

\* C7: createBudget with a valid amount, a visible category and, if given, a
\* family of the caller fails with 409 BUDGET_EXISTS and inserts nothing iff
\* a stored budget of the caller with the same categoryId, familyId and
\* period has start <= proposed end and end >= proposed start; otherwise it
\* inserts exactly one budget.  The three-branch filter of the query equals
\* that overlap test for all date pairs with start <= end.
C7_BudgetExistsIffOverlap ==
    /\ \A caller \in BudgetCallers : \A input \in CreateBudgetInputs :
        LET r == CreateBudgetOp(categories, members, budgets, transactions, caller,
                                input, BudgetIds)
            proposedEnd == ProposedEnd(input)
            overlapping ==
                \E b \in budgets :
                    /\ b.categoryId = input.categoryId
                    /\ b.userId = caller
                    /\ b.familyId = input.familyId
                    /\ b.period = input.period
                    /\ b.startDate <= proposedEnd
                    /\ b.endDate >= input.startDate
            valid ==
                /\ input.amount > 0
                /\ \E c \in categories :
                    c.id = input.categoryId /\ (c.userId = caller \/ c.isDefault)
                /\ input.familyId # NoFamily =>
                    \E m \in members :
                        m.familyId = input.familyId /\ m.userId = caller
        IN (valid /\ FreshId(budgets, BudgetIds) # 0) =>
            /\ overlapping <=>
                (r.result.status = 409 /\ r.result.code = "BUDGET_EXISTS")
            /\ overlapping => r.budgets = budgets
            /\ ~overlapping =>
                /\ r.result.code = "OK"
                /\ budgets \subseteq r.budgets
                /\ Cardinality(r.budgets \ budgets) = 1
                /\ \A b \in r.budgets \ budgets :
                    /\ b.userId = caller
                    /\ b.categoryId = input.categoryId
                    /\ b.startDate = input.startDate
                    /\ b.endDate = proposedEnd
    /\ \A s \in Dates : \A e \in Dates : \A bs \in Dates : \A be \in Dates :
        (s <= e /\ bs <= be) =>
            (OverlapFilter([startDate |-> bs, endDate |-> be], s, e)
                <=> (bs <= e /\ be >= s))

\* a createBudget has just been refused with BUDGET_EXISTS while a stored
\* budget starts in the middle of its month
C7_Witness ==
    /\ last.op = "createBudget"
    /\ last.result.code = "BUDGET_EXISTS"
    /\ \E b \in budgets : b.startDate % DaysPerMonth # 0

\* C8: the insert step of a createBudget request that passed its overlap
\* query does not look at the budgets stored since: unless the family check
\* or the unique index refuses it, it stores the budget, so two requests that
\* both passed the query both insert and two overlapping budgets of one group
\* are stored.
C8_InsertAfterStaleCheck ==
    \A i \in RequestIds :
        reqs[i].pc = "checked" =>
            LET caller == reqs[i].caller
                input == reqs[i].input
                r == CreateBudgetInsert(members, budgets, transactions, caller, input,
                                        BudgetIds)
                denied == /\ input.familyId # NoFamily
                          /\ ~\E m \in members :
                                m.familyId = input.familyId /\ m.userId = caller
                clash == /\ input.familyId # NoFamily
                         /\ \E b \in budgets :
                            /\ b.categoryId = input.categoryId
                            /\ b.userId = caller
                            /\ b.familyId = input.familyId
                            /\ b.period = input.period
                            /\ b.startDate = input.startDate
            IN /\ denied => (r.result.status = 403 /\ r.budgets = budgets)
               /\ (~denied /\ clash) => (r.result.code = "P2002" /\ r.budgets = budgets)
               /\ (~denied /\ ~clash) =>
                    /\ r.result.code = "OK"
                    /\ budgets \subseteq r.budgets
                    /\ Cardinality(r.budgets \ budgets) = 1

\* both requests have inserted and two budgets of one group with intersecting
\* windows are stored
C8_Witness ==
    /\ \A i \in RequestIds : reqs[i].pc = "done"
    /\ last.result.code = "OK"
    /\ \E a \in budgets : \E b \in budgets :
        a.id # b.id /\ SameGroup(a, b) /\ Intersect(a, b)

----------------------------------------------------------------------------
(* Properties of the spent amount and the virtual fields *)

\* the transaction counts for the budget: an EXPENSE of the budget's category,
\* user and family scope, dated within the window
Counts(t, b) ==
    /\ t.type = "EXPENSE"
    /\ t.categoryId = b.categoryId
    /\ t.userId = b.userId
    /\ t.familyId = b.familyId
    /\ b.startDate <= t.date
    /\ t.date <= b.endDate

\* the amounts of the stored transactions with ids 1..n that count for b,
\* added up id by id
RECURSIVE SpentUpTo(_, _)
SpentUpTo(n, b) ==
    IF n = 0 THEN 0
    ELSE SpentUpTo(n - 1, b)
         + (IF \E t \in transactions : t.id = n /\ Counts(t, b)
            THEN (CHOOSE t \in transactions : t.id = n).amount
            ELSE 0)

\* the budgets with virtual fields that the four operations return in the
\* current state, for every caller and every argument
ReturnedBudgets ==
    UNION {
        LET r == BudgetsQuery(members, budgets, transactions, caller, period, familyId)
        IN IF r.result.code = "OK" THEN r.data ELSE {} :
        caller \in BudgetCallers, period \in Periods \cup {NoPeriod},
        familyId \in {NoFamily} \cup FamilyIds}
    \cup UNION {
        LET r == BudgetQuery(budgets, transactions, caller, id)
        IN IF r.data # Null THEN {r.data} ELSE {} :
        caller \in BudgetCallers, id \in BudgetIds}
    \cup UNION {
        LET r == CreateBudgetOp(categories, members, budgets, transactions, caller,
                                input, BudgetIds)
        IN IF r.result.code = "OK" THEN {r.data} ELSE {} :
        caller \in BudgetCallers, input \in CreateBudgetInputs \cup SpentBudgetInputs}
    \cup UNION {
        LET r == UpdateBudgetOp(budgets, transactions, caller, id, input)
        IN IF r.result.code = "OK" THEN {r.data} ELSE {} :
        caller \in BudgetCallers, id \in BudgetIds,
        input \in UpdateBudgetInputs \cup SpentBudgetUpdates}

\* C9: every budget returned by budgets, budget, createBudget or updateBudget
\* reports spent equal to the sum of the amounts of exactly the stored
\* transactions that are EXPENSE, of the budget's category, user and family
\* scope (none matching only none) and dated within [startDate, endDate].
C9_SpentIsSumOfMatching ==
    \A d \in ReturnedBudgets : d.spent = SpentUpTo(MaxTransactions, d.budget)

\* a budget has just been read whose spent is positive while a stored
\* transaction of its category does not count for it
C9_Witness ==
    /\ last.op \in {"budget", "budgets"}
    /\ \E b \in budgets :
        /\ SpentUpTo(MaxTransactions, b) > 0
        /\ \E t \in transactions : t.categoryId = b.categoryId /\ ~Counts(t, b)

\* C10: every returned budget has remaining = amount - spent, percentage =
\* spent / amount * 100 (0 when amount is 0), and status danger iff
\* percentage >= 100, warning iff 80 <= percentage < 100, good otherwise.
C10_VirtualFields ==
    /\ \A d \in ReturnedBudgets :
        LET amount == d.budget.amount
            pct == d.percentage
        IN /\ d.remaining = amount - d.spent
           /\ pct.den > 0
           /\ amount > 0 => pct.num * amount = d.spent * 100 * pct.den
           /\ amount = 0 => pct.num = 0
           /\ d.status = "danger" <=> pct.num >= 100 * pct.den
           /\ d.status = "warning" <=>
                (80 * pct.den <= pct.num /\ pct.num < 100 * pct.den)
           /\ d.status = "good" <=> pct.num < 80 * pct.den
           /\ d.status \in {"danger", "warning", "good"}
    /\ \A spent \in 0..MaxDate :
        /\ Percentage(spent, 0).num = 0
        /\ Status(Percentage(spent, 0)) = "good"

\* a budget has just been read that is spent to exactly 80 percent
C10_Witness ==
    /\ last.op \in {"budget", "budgets"}
    /\ \E b \in budgets :
        /\ b.amount > 0
        /\ SpentUpTo(MaxTransactions, b) * 100 = 80 * b.amount

----------------------------------------------------------------------------
(* Requests of the sharing specification: members invited to and removed    *)
(* from the seeded family, and transactions and budgets written into it     *)

SharedInvites ==
    {[email |-> UserEmail[u], role |-> rp[1], permissions |-> rp[2]] :
        u \in {"u2"},
        rp \in {<<"VIEWER", {"VIEW"}>>,
                <<"MEMBER", {"ADD_TRANSACTIONS", "MANAGE_BUDGETS"}>>}}

SharedTransactionInputs ==
    {[amount |-> 4, description |-> <<"d">>, type |-> "EXPENSE", date |-> 0,
      categoryId |-> 2, familyId |-> f] : f \in {NoFamily} \cup FamilyIds}

SharedBudgetInputs ==
    {[categoryId |-> 2, amount |-> 5, period |-> "MONTHLY", startDate |-> 0,
      familyId |-> f] : f \in {NoFamily} \cup FamilyIds}

NextShared ==
    \E caller \in Users :
        \/ \E id \in FamilyIds :
            \/ \E input \in SharedInvites : InviteMember(caller, id, input)
            \/ \E memberId \in MemberIds : RemoveMember(caller, id, memberId)
        \/ \E input \in SharedTransactionInputs : CreateTransaction(caller, input)
        \/ \E input \in SharedBudgetInputs : CreateBudget(caller, input)

SpecShared == InitBudget /\ [][NextShared]_vars

----------------------------------------------------------------------------
(* Properties of family-scoped writes *)

\* u is a member of f who is ADMIN or holds the permission
HoldsPermission(u, f, permission) ==
    \E m \in members :
        /\ m.familyId = f
        /\ m.userId = u
        /\ (m.role = "ADMIN" \/ permission \in m.permissions)

\* C11: createTransaction with a familyId succeeds only for a member who is
\* ADMIN or holds ADD_TRANSACTIONS, and createBudget with a familyId only for
\* a member who is ADMIN or holds MANAGE_BUDGETS; any other caller is
\* rejected and nothing is written.
\* (Violated: both resolvers only look for a membership row, so a VIEWER
\* holding only VIEW writes into the family.)
C11_FamilyWritesNeedPermission ==
    \A caller \in Users :
        /\ \A input \in SharedTransactionInputs :
            LET r == CreateTransactionOp(categories, members, transactions, caller,
                                         input, TransactionIds)
            IN input.familyId # NoFamily =>
                IF HoldsPermission(caller, input.familyId, "ADD_TRANSACTIONS")
                THEN TRUE
                ELSE r.result.code # "OK" /\ r.transactions = transactions
        /\ \A input \in SharedBudgetInputs :
            LET r == CreateBudgetOp(categories, members, budgets, transactions, caller,
                                    input, BudgetIds)
            IN input.familyId # NoFamily =>
                IF HoldsPermission(caller, input.familyId, "MANAGE_BUDGETS")
                THEN TRUE
                ELSE r.result.code # "OK" /\ r.budgets = budgets

----------------------------------------------------------------------------
(* Queries of TransactionResolver, UserResolver and CategoryResolver *)

\* description contains search, mode insensitive
Contains(description, search) ==
    \E i \in 0..(Len(description) - Len(search)) :
        ToLowerCase(SubSeq(description, i + 1, i + Len(search))) = ToLowerCase(search)

TransactionsWhereAfterStart(t, caller, filters) ==
    /\ t.userId = caller
    /\ Has(filters, "startDate") => t.date > filters.startDate
    /\ Has(filters, "endDate") => t.date <= filters.endDate
    /\ (Has(filters, "categoryIds") /\ filters.categoryIds # {}) =>
            t.categoryId \in filters.categoryIds
    /\ Has(filters, "type") => t.type = filters.type
    /\ Has(filters, "minAmount") => t.amount >= filters.minAmount
    /\ Has(filters, "maxAmount") => t.amount <= filters.maxAmount
    /\ (Has(filters, "search") /\ filters.search # <<>>) =>
            Contains(t.description, filters.search)
    /\ (Has(filters, "familyId") /\ filters.familyId # NoFamily) =>
            t.familyId = filters.familyId

\* the where clause that query transactions builds from the filters
TransactionsWhere(t, caller, filters) ==
    /\ t.userId = caller
    /\ Has(filters, "startDate") => t.date >= filters.startDate
    /\ Has(filters, "endDate") => t.date <= filters.endDate
    /\ (Has(filters, "categoryIds") /\ filters.categoryIds # {}) =>
            t.categoryId \in filters.categoryIds
    /\ Has(filters, "type") => t.type = filters.type
    /\ Has(filters, "minAmount") => t.amount >= filters.minAmount
    /\ Has(filters, "maxAmount") => t.amount <= filters.maxAmount
    /\ (Has(filters, "search") /\ filters.search # <<>>) =>
            Contains(t.description, filters.search)
    /\ (Has(filters, "familyId") /\ filters.familyId # NoFamily) =>
            t.familyId = filters.familyId

\* orderBy: { date: 'desc' }: every order of the rows with dates descending
\* (the order of rows of one date is the database's choice)
OrderByDateDesc(rows) ==
    {s \in [1..Cardinality(rows) -> rows] :
        /\ \A i \in DOMAIN s : \A j \in DOMAIN s : i < j => s[i] # s[j] /\ s[i].date >= s[j].date}

\* findMany's skip and take over ordered rows: a negative take counts from
\* the end of the list
SkipTake(s, skip, take) ==
    IF take >= 0
    THEN SubSeq(s, skip + 1, IF skip + take < Len(s) THEN skip + take ELSE Len(s))
    ELSE SubSeq(s, IF Len(s) - skip + take + 1 > 1 THEN Len(s) - skip + take + 1 ELSE 1,
                Len(s) - skip)

\* the response to an error that is neither an AppError nor a known one
InternalError ==
    [status |-> 500, code |-> "INTERNAL_ERROR", message |-> <<"Internal server error">>]

\* query transactions(page, limit, filters): the responses it can give
TransactionsQuery(txs, caller, page, limit, filters) ==
    LET where == {t \in txs : TransactionsWhere(t, caller, filters)}
        skip == (page - 1) * limit
        total == Cardinality(where)
    IN IF skip < 0
       THEN {[result |-> InternalError, data |-> Null]}
       ELSE {[result |-> Ok,
              data |-> [transactions |-> SkipTake(s, skip, limit), total |-> total,
                        page |-> page, limit |-> limit,
                        hasNext |-> skip + limit < total, hasPrev |-> page > 1]] :
             s \in OrderByDateDesc(where)}

\* query transaction(id)
TransactionQuery(txs, caller, id) ==
    [result |-> Ok, data |-> FindOwnTransaction(txs, id, caller)]

\* query user(id)
UserQuery(caller, id) ==
    LET user == FindFirst({u \in UsersTable : u.id = id})
    IN IF user = Null
       THEN [result |-> AppError(<<"User not found">>, 404, "APP_ERROR"), data |-> Null]
       ELSE [result |-> Ok, data |-> user]

\* query category(id)
CategoryQuery(cats, caller, id) ==
    [result |-> Ok, data |-> FindVisibleCategory(cats, id, caller)]

----------------------------------------------------------------------------
(* Requests of the paging specification: transactions created and deleted,  *)
(* and the queries of transactions, users and categories                    *)

DefaultLimit == 2       \* the default of limit (50 in the source), scaled down

PageTransactionIds == 1..(DefaultLimit + 1)

PageCallers == {"u1", "u2"}

PageTransactionInputs ==
    LET base == [amount |-> 4, description |-> <<"D", "x">>, type |-> "EXPENSE",
                 date |-> 0, categoryId |-> 2, familyId |-> NoFamily]
    IN {base, [base EXCEPT !.date = 1], [base EXCEPT !.categoryId = 1]}

Pages == 0..2

Limits == (-1)..DefaultLimit

TransactionFilters ==
    {<<>>,
     [startDate |-> 1],
     [endDate |-> 0],
     [categoryIds |-> {2}, startDate |-> 0, endDate |-> 0],
     [categoryIds |-> {}, type |-> "INCOME"],
     [minAmount |-> 4, maxAmount |-> 4, search |-> <<"d">>],
     [minAmount |-> 5],
     [search |-> <<"y">>, familyId |-> NoFamily],
     [familyId |-> 1]}

Transactions(caller, page, limit, filters) ==
    /\ caller \in Users
    /\ \E r \in TransactionsQuery(transactions, caller, page, limit, filters) :
            last' = [op |-> "transactions", result |-> r.result]
    /\ UNCHANGED <<families, members, categories, budgets, transactions, shoppingLists,
                   items, reqs, users>>

Transaction(caller, id) ==
    /\ caller \in Users
    /\ last' = [op |-> "transaction",
                result |-> TransactionQuery(transactions, caller, id).result]
    /\ UNCHANGED <<families, members, categories, budgets, transactions, shoppingLists,
                   items, reqs, users>>

User(caller, id) ==
    /\ caller \in Users
    /\ last' = [op |-> "user", result |-> UserQuery(caller, id).result]
    /\ UNCHANGED <<families, members, categories, budgets, transactions, shoppingLists,
                   items, reqs, users>>

Category(caller, id) ==
    /\ caller \in Users
    /\ last' = [op |-> "category",
                result |-> CategoryQuery(categories, caller, id).result]
    /\ UNCHANGED <<families, members, categories, budgets, transactions, shoppingLists,
                   items, reqs, users>>

CreateTransactionPaged(caller, input) ==
    /\ FreshId(transactions, PageTransactionIds) # 0
    /\ HandledTransaction("createTransaction",
            CreateTransactionOp(categories, members, transactions, caller, input,
                                PageTransactionIds))

NextPage ==
    \E caller \in PageCallers :
        \/ \E input \in PageTransactionInputs : CreateTransactionPaged(caller, input)
        \/ \E id \in PageTransactionIds :
            \/ DeleteTransaction(caller, id)
            \/ Transaction(caller, id)
        \/ \E page \in Pages, limit \in Limits, filters \in TransactionFilters :
                Transactions(caller, page, limit, filters)
        \/ \E id \in Users \cup {NoUser} : User(caller, id)
        \/ \E c \in SeedCategories : Category(caller, c.id)

SpecPage == InitBudget /\ [][NextPage]_vars

----------------------------------------------------------------------------
(* Properties of the queries *)

\* the rows of a sequence
Range(s) == {s[i] : i \in DOMAIN s}

\* C12: no query returns to the caller a row owned by another user, unless
\* the row is a default category or a family the caller is a member of.
\* (Violated: query user(id) returns the row of any user to any caller.)
C12_QueriesReturnOwnRows ==
    \A caller \in PageCallers :
        /\ \A filters \in TransactionFilters : \A limit \in Limits :
            \A q \in TransactionsQuery(transactions, caller, 1, limit, filters) :
                q.result.code = "OK" =>
                    \A t \in Range(q.data.transactions) : t.userId = caller
        /\ \A id \in PageTransactionIds :
            LET q == TransactionQuery(transactions, caller, id)
            IN q.data # Null => q.data.userId = caller
        /\ \A id \in BudgetIds :
            LET q == BudgetQuery(budgets, transactions, caller, id)
            IN q.data # Null => q.data.budget.userId = caller
        /\ \A c \in categories :
            LET q == CategoryQuery(categories, caller, c.id)
            IN q.data # Null => (q.data.userId = caller \/ q.data.isDefault)
        /\ \A f \in families :
            FamilyQuery(families, members, caller, f.id).result.code = "OK"
                => IsMember(caller, f.id)
        /\ \A id \in Users :
            LET q == UserQuery(caller, id)
            IN q.result.code = "OK" => q.data.id = caller

\* the transactions query that follows a successful createTransaction of the
\* input, with the default page and limit and the filters of the round trip:
\* TRUE iff every page the query may return holds the new transaction once
RoundTrip(caller, input, others) ==
    LET r == CreateTransactionOp(categories, members, transactions, caller, input,
                                 PageTransactionIds)
        t == r.data
        filters == [categoryIds |-> {t.categoryId}, startDate |-> t.date,
                    endDate |-> t.date]
        alike == {x \in transactions :
                    x.userId = caller /\ x.categoryId = t.categoryId /\ x.date = t.date}
    IN (/\ r.result.code = "OK"
        /\ FreshId(transactions, PageTransactionIds) # 0
        /\ Cardinality(alike) <= others) =>
            \A q \in TransactionsQuery(r.transactions, caller, 1, DefaultLimit, filters) :
                /\ q.result.code = "OK"
                /\ Cardinality({i \in DOMAIN q.data.transactions :
                                    q.data.transactions[i] = t}) = 1

\* C16 as stated: after a successful createTransaction returning t, the
\* transactions query of the same caller with the default page and limit and
\* filters categoryIds = {t.categoryId}, startDate = endDate = t.date returns a
\* page holding t exactly once, whatever other transactions the caller has.
C16_RoundTripWhatever ==
    \A caller \in PageCallers : \A input \in PageTransactionInputs :
        RoundTrip(caller, input, DefaultLimit)

\* C16 amended: the same, provided fewer than limit other transactions of the
\* caller have t's category and date (with limit or more of them the page is
\* full and the database may order t behind them).
C16_RoundTripWithinLimit ==
    \A caller \in PageCallers : \A input \in PageTransactionInputs :
        RoundTrip(caller, input, DefaultLimit - 1)

\* a createTransaction has just succeeded for a caller who has another
\* transaction of the same category and date
C16_Witness ==
    /\ last.op = "createTransaction"
    /\ last.result.code = "OK"
    /\ \E a \in transactions : \E b \in transactions :
        /\ a.id # b.id
        /\ a.userId = b.userId
        /\ a.categoryId = b.categoryId
        /\ a.date = b.date

\* C17: for every filter, page and limit the transactions query reports total
\* = the number of the caller's transactions matching the filter, hasPrev iff
\* a previous page exists, hasNext iff a matching transaction lies after the
\* returned page, and never more than limit rows.
\* (Violated: a negative limit is passed on as take, which returns rows
\* counted from the end of the list.)
C17_Pagination ==
    \A caller \in PageCallers : \A filters \in TransactionFilters :
        LET matching == {t \in transactions : TransactionsWhere(t, caller, filters)}
        IN \A page \in Pages : \A limit \in Limits :
            \A q \in TransactionsQuery(transactions, caller, page, limit, filters) :
                q.result.code = "OK" =>
                    /\ q.data.total = Cardinality(matching)
                    /\ q.data.hasPrev <=> page > 1
                    /\ q.data.hasNext <=>
                        Cardinality(matching) > (page - 1) * limit
                                                + Len(q.data.transactions)
                    /\ Len(q.data.transactions) <= limit

----------------------------------------------------------------------------
(* CategoryResolver *)

MaxCategoryNameLength == 50

HexDigits ==
    {"0", "1", "2", "3", "4", "5", "6", "7", "8", "9",
     "A", "B", "C", "D", "E", "F", "a", "b", "c", "d", "e", "f"}

\* /^#([A-Fa-f0-9]{6}|[A-Fa-f0-9]{3})$/.test(color)
HexColorRegexTest(color) ==
    /\ Len(color) \in {4, 7}
    /\ color[1] = "#"
    /\ \A i \in 2..Len(color) : color[i] \in HexDigits

\* prisma.category.findFirst({ where: { id, userId } })
FindOwnCategory(cats, id, caller) ==
    FindFirst({c \in cats : c.id = id /\ c.userId = caller})

\* findFirst of a category of the user and type whose name equals the name,
\* mode insensitive, other than the category with the id
FindCategoryByName(cats, name, caller, type, exceptId) ==
    FindFirst({c \in cats :
        /\ ToLowerCase(c.name) = ToLowerCase(name)
        /\ c.userId = caller
        /\ c.type = type
        /\ c.id # exceptId})

\* a category response that leaves the tables as they are
CategoryReply(cats, txs, result, data) ==
    [result |-> result, data |-> data, categories |-> cats, transactions |-> txs]

CreateCategoryOpCaseSensitive(cats, txs, caller, input, ids) ==
    LET category == [id |-> FreshId(cats, ids), userId |-> caller, isDefault |-> FALSE,
                     type |-> input.type, name |-> Trim(input.name)]
    IN IF Trim(input.name) = <<>>
       THEN CategoryReply(cats, txs,
                AppError(<<"Category name is required">>, 400, "VALIDATION_ERROR"), Null)
       ELSE IF Len(Trim(input.name)) > MaxCategoryNameLength
       THEN CategoryReply(cats, txs,
                AppError(<<"Category name must be 50 characters or less">>, 400,
                         "VALIDATION_ERROR"), Null)
       ELSE IF ~HexColorRegexTest(input.color)
       THEN CategoryReply(cats, txs,
                AppError(<<"Invalid color format. Use hex color (e.g., #FF0000)">>, 400,
                         "VALIDATION_ERROR"), Null)
       ELSE IF \E c \in cats :
                c.name = Trim(input.name) /\ c.userId = caller /\ c.type = input.type
       THEN CategoryReply(cats, txs,
                AppError(<<"A category with this name already exists">>, 409,
                         "CATEGORY_EXISTS"), Null)
       ELSE [result |-> Ok, data |-> category, categories |-> cats \cup {category},
             transactions |-> txs]

\* mutation createCategory(input)
CreateCategoryOp(cats, txs, caller, input, ids) ==
    LET category == [id |-> FreshId(cats, ids), userId |-> caller, isDefault |-> FALSE,
                     type |-> input.type, name |-> Trim(input.name)]
    IN IF Trim(input.name) = <<>>
       THEN CategoryReply(cats, txs,
                AppError(<<"Category name is required">>, 400, "VALIDATION_ERROR"), Null)
       ELSE IF Len(Trim(input.name)) > MaxCategoryNameLength
       THEN CategoryReply(cats, txs,
                AppError(<<"Category name must be 50 characters or less">>, 400,
                         "VALIDATION_ERROR"), Null)
       ELSE IF ~HexColorRegexTest(input.color)
       THEN CategoryReply(cats, txs,
                AppError(<<"Invalid color format. Use hex color (e.g., #FF0000)">>, 400,
                         "VALIDATION_ERROR"), Null)
       ELSE IF FindCategoryByName(cats, Trim(input.name), caller, input.type, 0) # Null
       THEN CategoryReply(cats, txs,
                AppError(<<"A category with this name already exists">>, 409,
                         "CATEGORY_EXISTS"), Null)
       ELSE [result |-> Ok, data |-> category, categories |-> cats \cup {category},
             transactions |-> txs]

\* mutation updateCategory(id, input)
UpdateCategoryOp(cats, txs, caller, id, input) ==
    LET existingCategory == FindOwnCategory(cats, id, caller)
        category == [existingCategory EXCEPT
                        !.name = IF Has(input, "name") THEN Trim(input.name) ELSE @]
    IN IF existingCategory = Null
       THEN CategoryReply(cats, txs,
                AppError(<<"Category not found or cannot be modified">>, 404, "APP_ERROR"),
                Null)
       ELSE IF Has(input, "name") /\ Trim(input.name) = <<>>
       THEN CategoryReply(cats, txs,
                AppError(<<"Category name cannot be empty">>, 400, "VALIDATION_ERROR"), Null)
       ELSE IF Has(input, "name") /\ Len(Trim(input.name)) > MaxCategoryNameLength
       THEN CategoryReply(cats, txs,
                AppError(<<"Category name must be 50 characters or less">>, 400,
                         "VALIDATION_ERROR"), Null)
       ELSE IF Has(input, "name")
               /\ FindCategoryByName(cats, Trim(input.name), caller,
                                     existingCategory.type, id) # Null
       THEN CategoryReply(cats, txs,
                AppError(<<"A category with this name already exists">>, 409,
                         "CATEGORY_EXISTS"), Null)
       ELSE IF Has(input, "color") /\ ~HexColorRegexTest(input.color)
       THEN CategoryReply(cats, txs,
                AppError(<<"Invalid color format. Use hex color (e.g., #FF0000)">>, 400,
                         "VALIDATION_ERROR"), Null)
       ELSE [result |-> Ok, data |-> category,
             categories |-> (cats \ {existingCategory}) \cup {category},
             transactions |-> txs]

\* the id of no category: moveTransactionsTo left out, an item without category
NoCategory == 0

\* errorHandler's response to Prisma's P2003 (foreign key constraint failed)
PrismaP2003 ==
    [status |-> 400, code |-> "P2003", message |-> <<"Foreign key constraint failed">>]

DeleteCategoryOpNoMove(cats, txs, buds, caller, id, moveTransactionsTo) ==
    LET category == FindOwnCategory(cats, id, caller)
        own == {t \in txs : t.categoryId = id /\ t.userId = caller}
        targetCategory ==
            FindFirst({c \in cats :
                /\ c.id = moveTransactionsTo
                /\ (c.userId = caller \/ c.isDefault)
                /\ c.type = category.type})
        moved == (txs \ own) \cup {[t EXCEPT !.categoryId = moveTransactionsTo] : t \in own}
    IN IF category = Null
       THEN CategoryReply(cats, txs,
                AppError(<<"Category not found or cannot be deleted">>, 404, "APP_ERROR"),
                Null)
       ELSE IF own # {} /\ moveTransactionsTo = NoCategory
       THEN CategoryReply(cats, txs,
                AppError(<<"Cannot delete category with transactions", Cardinality(own)>>,
                         400, "CATEGORY_HAS_TRANSACTIONS"), Null)
       ELSE IF own # {} /\ targetCategory = Null
       THEN CategoryReply(cats, txs,
                AppError(<<"Target category not found or incompatible">>, 404, "APP_ERROR"),
                Null)
       ELSE LET txs1 == txs
            IN IF (\E t \in txs1 : t.categoryId = id) \/ (\E b \in buds : b.categoryId = id)
               THEN CategoryReply(cats, txs1, PrismaP2003, Null)
               ELSE [result |-> Ok, data |-> TRUE, categories |-> cats \ {category},
                     transactions |-> txs1]

\* mutation deleteCategory(id, moveTransactionsTo); buds are the budgets, whose
\* categoryId, like that of the transactions, restricts the delete
DeleteCategoryOp(cats, txs, buds, caller, id, moveTransactionsTo) ==
    LET category == FindOwnCategory(cats, id, caller)
        own == {t \in txs : t.categoryId = id /\ t.userId = caller}
        targetCategory ==
            FindFirst({c \in cats :
                /\ c.id = moveTransactionsTo
                /\ (c.userId = caller \/ c.isDefault)
                /\ c.type = category.type})
        moved == (txs \ own) \cup {[t EXCEPT !.categoryId = moveTransactionsTo] : t \in own}
    IN IF category = Null
       THEN CategoryReply(cats, txs,
                AppError(<<"Category not found or cannot be deleted">>, 404, "APP_ERROR"),
                Null)
       ELSE IF own # {} /\ moveTransactionsTo = NoCategory
       THEN CategoryReply(cats, txs,
                AppError(<<"Cannot delete category with transactions", Cardinality(own)>>,
                         400, "CATEGORY_HAS_TRANSACTIONS"), Null)
       ELSE IF own # {} /\ targetCategory = Null
       THEN CategoryReply(cats, txs,
                AppError(<<"Target category not found or incompatible">>, 404, "APP_ERROR"),
                Null)
       ELSE LET txs1 == IF own # {} THEN moved ELSE txs
            IN IF (\E t \in txs1 : t.categoryId = id) \/ (\E b \in buds : b.categoryId = id)
               THEN CategoryReply(cats, txs1, PrismaP2003, Null)
               ELSE [result |-> Ok, data |-> TRUE, categories |-> cats \ {category},
                     transactions |-> txs1]

----------------------------------------------------------------------------
(* Requests of the category specification: categories created, renamed and  *)
(* deleted one request at a time                                            *)

MaxCategories == 2      \* categories created besides the seeded ones

CategoryIds == 1..(Cardinality(SeedCategories) + MaxCategories)

ValidColor == <<"#", "F", "0", "a">>

CreateCategoryInputs ==
    LET base == [name |-> <<"A">>, color |-> ValidColor, type |-> "EXPENSE"]
    IN {base,
        [base EXCEPT !.name = <<" ", "a", " ">>],
        [base EXCEPT !.name = <<"B">>],
        [base EXCEPT !.name = <<" ">>],
        [base EXCEPT !.name = [i \in 1..(MaxCategoryNameLength + 1) |-> "n"]],
        [base EXCEPT !.color = <<"r", "e", "d">>],
        [base EXCEPT !.type = "INCOME"]}

UpdateCategoryInputs ==
    {[name |-> <<"a">>], [name |-> <<"B", " ">>], [name |-> <<" ">>],
     [color |-> <<"#", "0", "0">>], <<>>}

\* shopping_list_items_categoryId_fkey (ON DELETE SET NULL): the items when
\* only the categories cats exist
UnlinkCategories(its, cats) ==
    {IF i.categoryId = NoCategory \/ \E c \in cats : c.id = i.categoryId
     THEN i ELSE [i EXCEPT !.categoryId = NoCategory] : i \in its}

\* the tables after a category operation and the record of the request
HandledCategory(op, r) ==
    /\ categories' = r.categories
    /\ transactions' = r.transactions
    /\ items' = UnlinkCategories(items, r.categories)
    /\ last' = [op |-> op, result |-> r.result]
    /\ UNCHANGED <<families, members, budgets, shoppingLists, reqs, users>>

CreateCategory(caller, input) ==
    /\ FreshId(categories, CategoryIds) # 0
    /\ HandledCategory("createCategory",
            CreateCategoryOp(categories, transactions, caller, input, CategoryIds))

UpdateCategory(caller, id, input) ==
    /\ caller \in Users
    /\ HandledCategory("updateCategory",
            UpdateCategoryOp(categories, transactions, caller, id, input))

DeleteCategory(caller, id, moveTransactionsTo) ==
    /\ caller \in Users
    /\ HandledCategory("deleteCategory",
            DeleteCategoryOp(categories, transactions, budgets, caller, id,
                             moveTransactionsTo))

NextCategory ==
    \E caller \in {"u1"} :
        \/ \E input \in CreateCategoryInputs : CreateCategory(caller, input)
        \/ \E id \in CategoryIds :
            \/ \E input \in UpdateCategoryInputs : UpdateCategory(caller, id, input)
            \/ \E to \in {NoCategory, 2} : DeleteCategory(caller, id, to)

SpecCategory == InitBudget /\ [][NextCategory]_vars

----------------------------------------------------------------------------
(* Properties of the category resolvers *)

\* the caller owns a category of the type whose name equals the trimmed name
\* ignoring case
OwnsNameAlike(caller, type, name) ==
    \E c \in categories :
        /\ c.userId = caller
        /\ c.type = type
        /\ ToLowerCase(c.name) = ToLowerCase(Trim(name))

\* no user owns two categories of one type with names equal ignoring case
NoDuplicateNames ==
    \A a \in categories : \A b \in categories :
        (/\ a.id # b.id
         /\ a.userId # NoUser
         /\ a.userId = b.userId
         /\ a.type = b.type) => ToLowerCase(a.name) # ToLowerCase(b.name)

\* C15 as stated: createCategory with a name that, trimmed, equals ignoring
\* case the name of a category the caller owns with that type fails with 409
\* CATEGORY_EXISTS and creates nothing, whatever the rest of the input; and no
\* user owns two categories of one type with names equal ignoring case.
C15_DuplicateNameAlways409 ==
    /\ \A caller \in Users : \A input \in CreateCategoryInputs :
        LET r == CreateCategoryOp(categories, transactions, caller, input, CategoryIds)
        IN OwnsNameAlike(caller, input.type, input.name) =>
            /\ r.result.status = 409
            /\ r.result.code = "CATEGORY_EXISTS"
            /\ r.categories = categories
    /\ NoDuplicateNames

\* C15 amended: the same for an input whose color is a valid hex color; with
\* an invalid color the call fails with 400 VALIDATION_ERROR before the name
\* is looked up, and creates nothing either.
C15_DuplicateName409 ==
    /\ \A caller \in Users : \A input \in CreateCategoryInputs :
        LET r == CreateCategoryOp(categories, transactions, caller, input, CategoryIds)
        IN OwnsNameAlike(caller, input.type, input.name) =>
            /\ r.categories = categories
            /\ IF HexColorRegexTest(input.color)
               THEN r.result.status = 409 /\ r.result.code = "CATEGORY_EXISTS"
               ELSE r.result.status = 400 /\ r.result.code = "VALIDATION_ERROR"
    /\ NoDuplicateNames

\* a createCategory has just been refused with CATEGORY_EXISTS while the
\* caller owns categories of both types with names equal ignoring case
C15_Witness ==
    /\ last.op = "createCategory"
    /\ last.result.code = "CATEGORY_EXISTS"
    /\ \E a \in categories : \E b \in categories :
        /\ a.userId = b.userId
        /\ a.userId # NoUser
        /\ a.type # b.type
        /\ ToLowerCase(a.name) = ToLowerCase(b.name)

----------------------------------------------------------------------------
(* ShoppingListResolver *)

\* the list of the id that the caller owns or that is shared with their email
FindAccessibleList(lists, listId, caller) ==
    FindFirst({l \in lists :
        l.id = listId /\ (l.userId = caller \/ UserEmail[caller] \in Range(l.sharedWith))})

\* a shopping list response that leaves the tables as they are
ShoppingReply(its, txs, result, data) ==
    [result |-> result, data |-> data, items |-> its, transactions |-> txs]

\* mutation addShoppingListItem(listId, input); actualPrice is NULL (here 0)
\* until the item is purchased
AddShoppingListItemOp(lists, its, cats, txs, caller, listId, input, ids) ==
    LET item == [id |-> FreshId(its, ids), listId |-> listId, name |-> Trim(input.name),
                 estimatedPrice |-> input.estimatedPrice, actualPrice |-> 0,
                 categoryId |-> input.categoryId, purchased |-> FALSE,
                 purchasedBy |-> NoUser, transactionId |-> NoTransaction]
    IN IF FindAccessibleList(lists, listId, caller) = Null
       THEN ShoppingReply(its, txs,
                AppError(<<"Shopping list not found or access denied">>, 404, "APP_ERROR"),
                Null)
       ELSE IF Trim(input.name) = <<>>
       THEN ShoppingReply(its, txs,
                AppError(<<"Item name is required">>, 400, "VALIDATION_ERROR"), Null)
       ELSE IF input.estimatedPrice < 0
       THEN ShoppingReply(its, txs,
                AppError(<<"Estimated price cannot be negative">>, 400, "VALIDATION_ERROR"),
                Null)
       ELSE IF input.categoryId # NoCategory
               /\ FindVisibleCategory(cats, input.categoryId, caller) = Null
       THEN ShoppingReply(its, txs, AppError(<<"Category not found">>, 404, "APP_ERROR"),
                          Null)
       ELSE [result |-> Ok, data |-> item, items |-> its \cup {item}, transactions |-> txs]

MarkItemPurchasedOpNeverLinks(lists, its, txs, caller, itemId, input, ids, now) ==
    LET item == FindFirst({i \in its : i.id = itemId})
        shoppingList == FindFirst({l \in lists : l.id = item.listId})
        hasAccess == \/ shoppingList.userId = caller
                     \/ UserEmail[caller] \in Range(shoppingList.sharedWith)
        actualPrice == IF Has(input, "actualPrice") /\ input.actualPrice # 0
                       THEN input.actualPrice ELSE item.estimatedPrice
        updatedItem == [item EXCEPT !.purchased = TRUE, !.purchasedBy = caller,
                                    !.actualPrice = actualPrice]
        transaction ==
            [id |-> FreshId(txs, ids), amount |-> actualPrice,
             description |-> <<"S">> \o item.name, type |-> "EXPENSE", date |-> now,
             categoryId |-> item.categoryId, userId |-> caller,
             familyId |-> shoppingList.familyId]
    IN IF item = Null
       THEN ShoppingReply(its, txs,
                AppError(<<"Shopping list item not found">>, 404, "APP_ERROR"), Null)
       ELSE IF ~hasAccess
       THEN ShoppingReply(its, txs,
                AppError(<<"Access denied to shopping list item">>, 403, "APP_ERROR"), Null)
       ELSE IF Has(input, "createTransaction") /\ input.createTransaction
               /\ item.categoryId # NoCategory
       THEN [result |-> Ok, data |-> updatedItem,
             items |-> (its \ {item}) \cup {updatedItem},
             transactions |-> txs \cup {transaction}]
       ELSE [result |-> Ok, data |-> updatedItem,
             items |-> (its \ {item}) \cup {updatedItem}, transactions |-> txs]

\* mutation markItemPurchased(itemId, input); now is new Date()
MarkItemPurchasedOp(lists, its, txs, caller, itemId, input, ids, now) ==
    LET item == FindFirst({i \in its : i.id = itemId})
        shoppingList == FindFirst({l \in lists : l.id = item.listId})
        hasAccess == \/ shoppingList.userId = caller
                     \/ UserEmail[caller] \in Range(shoppingList.sharedWith)
        actualPrice == IF Has(input, "actualPrice") /\ input.actualPrice # 0
                       THEN input.actualPrice ELSE item.estimatedPrice
        updatedItem == [item EXCEPT !.purchased = TRUE, !.purchasedBy = caller,
                                    !.actualPrice = actualPrice]
        transaction ==
            [id |-> FreshId(txs, ids), amount |-> actualPrice,
             description |-> <<"S">> \o item.name, type |-> "EXPENSE", date |-> now,
             categoryId |-> item.categoryId, userId |-> caller,
             familyId |-> shoppingList.familyId]
    IN IF item = Null
       THEN ShoppingReply(its, txs,
                AppError(<<"Shopping list item not found">>, 404, "APP_ERROR"), Null)
       ELSE IF ~hasAccess
       THEN ShoppingReply(its, txs,
                AppError(<<"Access denied to shopping list item">>, 403, "APP_ERROR"), Null)
       ELSE IF Has(input, "createTransaction") /\ input.createTransaction
               /\ item.categoryId # NoCategory
       THEN [result |-> Ok, data |-> updatedItem,
             items |-> (its \ {item})
                       \cup {[updatedItem EXCEPT !.transactionId = transaction.id]},
             transactions |-> txs \cup {transaction}]
       ELSE [result |-> Ok, data |-> updatedItem,
             items |-> (its \ {item}) \cup {updatedItem}, transactions |-> txs]

----------------------------------------------------------------------------
(* Requests of the shopping specification: items added to a shared list and *)
(* marked purchased, transactions created and updated, a category deleted   *)

MaxItems == 1           \* ids in the pool of table "shopping_list_items"

ItemIds == 1..MaxItems

\* the seeded categories and a default category of type INCOME
ShopCategories ==
    SeedCategories
    \cup {[id |-> 4, userId |-> NoUser, isDefault |-> TRUE, type |-> "INCOME",
           name |-> <<"s">>]}

\* the list that u1 created and shared with u2
SeedShoppingLists ==
    {[id |-> 1, userId |-> "u1", familyId |-> NoFamily,
      name |-> <<"L">>, shared |-> TRUE, sharedWith |-> <<UserEmail["u2"]>>]}

AddItemInputs ==
    LET base == [name |-> <<"i">>, estimatedPrice |-> 3, categoryId |-> 2]
    IN {base,
        [base EXCEPT !.categoryId = NoCategory],
        [base EXCEPT !.categoryId = 4],
        [base EXCEPT !.categoryId = 1],
        [base EXCEPT !.estimatedPrice = -1],
        [base EXCEPT !.name = <<" ">>]}

MarkItemPurchasedInputs ==
    {[createTransaction |-> TRUE], [actualPrice |-> -2, createTransaction |-> TRUE],
     [actualPrice |-> 0, createTransaction |-> FALSE], <<>>}

ShopTransactionInputs ==
    LET base == [amount |-> 4, description |-> <<"d">>, type |-> "EXPENSE",
                 date |-> 0, categoryId |-> 1, familyId |-> NoFamily]
    IN {base, [base EXCEPT !.type = "INCOME"], [base EXCEPT !.amount = -4]}

ShopTransactionUpdates == {[type |-> "INCOME"], [amount |-> -1], [categoryId |-> 4]}

\* the tables after a shopping list operation and the record of the request
HandledShopping(op, r) ==
    /\ items' = r.items
    /\ transactions' = r.transactions
    /\ last' = [op |-> op, result |-> r.result]
    /\ UNCHANGED <<families, members, categories, budgets, shoppingLists, reqs, users>>

AddShoppingListItem(caller, listId, input) ==
    /\ FreshId(items, ItemIds) # 0
    /\ HandledShopping("addShoppingListItem",
            AddShoppingListItemOp(shoppingLists, items, categories, transactions, caller,
                                  listId, input, ItemIds))

MarkItemPurchased(caller, itemId, input, now) ==
    /\ FreshId(transactions, TransactionIds) # 0
    /\ HandledShopping("markItemPurchased",
            MarkItemPurchasedOp(shoppingLists, items, transactions, caller, itemId, input,
                                TransactionIds, now))

InitShop ==
    /\ families = SeedFamily.families
    /\ members = SeedFamily.members
    /\ categories = ShopCategories
    /\ budgets = {}
    /\ transactions = {}
    /\ shoppingLists = SeedShoppingLists
    /\ items = {}
    /\ reqs = <<>>
    /\ users = UsersTable
    /\ last = NoRequest

NextShop ==
    \/ \E caller \in Users :
        \/ \E input \in AddItemInputs : AddShoppingListItem(caller, 1, input)
        \/ \E itemId \in ItemIds, input \in MarkItemPurchasedInputs :
                MarkItemPurchased(caller, itemId, input, 0)
    \/ \E caller \in {"u1"} :
        \/ \E input \in ShopTransactionInputs : CreateTransaction(caller, input)
        \/ \E id \in TransactionIds, input \in ShopTransactionUpdates :
                UpdateTransaction(caller, id, input)
        \/ \E to \in {NoCategory, 2, 4} : DeleteCategory(caller, 1, to)

SpecShop == InitShop /\ [][NextShop]_vars

----------------------------------------------------------------------------
(* Properties of the shopping list resolver and of stored transactions *)

\* C14: markItemPurchased on an accessible item that has a category, called
\* with createTransaction = true, creates exactly one new transaction (type
\* EXPENSE, amount the actual price used, owner the caller, category the
\* item's) and leaves the item purchased and linked to that transaction; with
\* createTransaction false or absent, or an item without category, it
\* creates no transaction.
C14_PurchaseCreatesOneTransaction ==
    \A caller \in Users, item \in items, input \in MarkItemPurchasedInputs :
        LET r == MarkItemPurchasedOp(shoppingLists, items, transactions, caller, item.id,
                                     input, TransactionIds, 0)
            created == r.transactions \ transactions
            stored == FindFirst({i \in r.items : i.id = item.id})
        IN (FreshId(transactions, TransactionIds) # 0 /\ r.result.code = "OK")
           => /\ transactions \subseteq r.transactions
              /\ stored.purchased
              /\ IF Has(input, "createTransaction") /\ input.createTransaction
                    /\ item.categoryId # NoCategory
                 THEN /\ Cardinality(created) = 1
                      /\ \A t \in created :
                            /\ t.id \notin {o.id : o \in transactions}
                            /\ t.type = "EXPENSE"
                            /\ t.amount = stored.actualPrice
                            /\ t.amount = (IF Has(input, "actualPrice")
                                              /\ input.actualPrice # 0
                                           THEN input.actualPrice
                                           ELSE item.estimatedPrice)
                            /\ t.userId = caller
                            /\ t.categoryId = item.categoryId
                            /\ stored.transactionId = t.id
                 ELSE /\ created = {}
                      /\ stored.transactionId = item.transactionId

\* an item of a category was just marked purchased and is linked to a stored
\* EXPENSE transaction of its category
C14_Witness ==
    /\ last.op = "markItemPurchased"
    /\ last.result.code = "OK"
    /\ \E i \in items, t \in transactions :
        /\ i.purchased
        /\ i.categoryId # NoCategory
        /\ i.transactionId = t.id
        /\ t.userId = i.purchasedBy
        /\ t.amount = i.actualPrice

\* C19: after any sequence of createTransaction, updateTransaction and
\* markItemPurchased calls, every stored transaction has a non-negative
\* amount.
C19_AmountsNonNegative == \A t \in transactions : t.amount >= 0

\* C20: after any sequence of createTransaction, updateTransaction,
\* deleteCategory (with moveTransactionsTo) and markItemPurchased calls, every
\* stored transaction has the type of the category it references.
C20_TypeMatchesCategory ==
    \A t \in transactions :
        \A c \in categories : c.id = t.categoryId => t.type = c.type

----------------------------------------------------------------------------
(* The derived end date of budgets *)

\* C18: for every stored budget, after any sequence of createBudget and
\* updateBudget calls (updating period, startDate, both or neither), endDate
\* is the end of the month of startDate when period is MONTHLY and the end of
\* the year of startDate when period is YEARLY.
C18_EndDateDerived ==
    \A b \in budgets :
        b.endDate = (IF b.period = "MONTHLY"
                     THEN EndOfMonth(b.startDate) ELSE EndOfYear(b.startDate))

\* an updateBudget just succeeded and a yearly budget starts later than any
\* yearly budget was created: its period or its startDate was updated
C18_Witness ==
    /\ last.op = "updateBudget"
    /\ last.result.code = "OK"
    /\ \E b \in budgets :
        /\ b.period = "YEARLY"
        /\ b.startDate > 0
        /\ b.endDate = EndOfYear(b.startDate)
        /\ b.endDate # EndOfMonth(b.startDate)

----------------------------------------------------------------------------
(* Authentication: the context of a request and the authChecker *)

\* mutation deleteShoppingList(id)
DeleteShoppingListOp(lists, its, caller, id) ==
    LET list == FindFirst({l \in lists : l.id = id /\ l.userId = caller})
    IN IF list = Null
       THEN [result |-> AppError(<<"Shopping list not found or access denied">>, 404,
                                 "APP_ERROR"),
             data |-> Null, shoppingLists |-> lists, items |-> its]
       ELSE [result |-> Ok, data |-> TRUE, shoppingLists |-> lists \ {list},
             items |-> CascadeList(its, lists \ {list})]

\* mutation removeShoppingListItem(itemId)
RemoveShoppingListItemOp(lists, its, caller, itemId) ==
    LET item == FindFirst({i \in its : i.id = itemId})
        shoppingList == FindFirst({l \in lists : l.id = item.listId})
        hasAccess == \/ shoppingList.userId = caller
                     \/ UserEmail[caller] \in Range(shoppingList.sharedWith)
    IN IF item = Null
       THEN [result |-> AppError(<<"Shopping list item not found">>, 404, "APP_ERROR"),
             data |-> Null, shoppingLists |-> lists, items |-> its]
       ELSE IF ~hasAccess
       THEN [result |-> AppError(<<"Access denied to shopping list item">>, 403,
                                 "APP_ERROR"),
             data |-> Null, shoppingLists |-> lists, items |-> its]
       ELSE [result |-> Ok, data |-> TRUE, shoppingLists |-> lists,
             items |-> its \ {item}]

\* the Authorization headers of the requests: the token of u1, a token of u1
\* with a bad signature, the token of a user that no longer exists, no header
Headers ==
    {[present |-> TRUE, userId |-> "u1", verified |-> TRUE],
     [present |-> TRUE, userId |-> "u1", verified |-> FALSE],
     [present |-> TRUE, userId |-> "u4", verified |-> TRUE],
     [present |-> FALSE, userId |-> NoUser, verified |-> FALSE]}

AuthMiddlewareUnverified(header) ==
    IF ~header.present THEN Null
    ELSE FindFirst({u \in UsersTable : u.id = header.userId})

\* authMiddleware: the row of the user of the verified token of the header;
\* Null stands for the thrown 'Invalid or expired token'
AuthMiddleware(header) ==
    IF ~header.present THEN Null
    ELSE IF ~header.verified THEN Null
    ELSE FindFirst({u \in UsersTable : u.id = header.userId})

\* context.user: null (here NoUser) unless authMiddleware returns a user
ContextUser(header) ==
    IF AuthMiddleware(header) = Null THEN NoUser ELSE AuthMiddleware(header).id

\* authChecker: !!context.user
AuthChecker(user) == user # NoUser

\* the error of a resolver marked Authorized when the authChecker says no
AccessDenied ==
    [status |-> 401, code |-> "UNAUTHENTICATED",
     message |-> <<"Access denied! You need to be authenticated to perform this action!">>]

\* the tables of the database
Database ==
    [families |-> families, members |-> members, categories |-> categories,
     budgets |-> budgets, transactions |-> transactions,
     shoppingLists |-> shoppingLists, items |-> items]

\* the database after a family operation, with the cascades of its deletes
AfterFamily(db, r) ==
    [result |-> r.result,
     db |-> [db EXCEPT
               !.families = r.families,
               !.members = r.members,
               !.budgets = CascadeFamily(@, r.families),
               !.transactions = CascadeFamily(@, r.families),
               !.shoppingLists = CascadeFamily(@, r.families),
               !.items = UnlinkTransactions(
                             CascadeList(@, CascadeFamily(db.shoppingLists, r.families)),
                             CascadeFamily(db.transactions, r.families))]]

AfterBudget(db, r) == [result |-> r.result, db |-> [db EXCEPT !.budgets = r.budgets]]

AfterTransaction(db, r) ==
    [result |-> r.result,
     db |-> [db EXCEPT !.transactions = r.transactions,
                       !.items = UnlinkTransactions(@, r.transactions)]]

AfterCategory(db, r) ==
    [result |-> r.result,
     db |-> [db EXCEPT !.categories = r.categories,
                       !.transactions = r.transactions,
                       !.items = UnlinkCategories(@, r.categories)]]

AfterItem(db, r) ==
    [result |-> r.result,
     db |-> [db EXCEPT !.items = r.items, !.transactions = r.transactions]]

AfterList(db, r) ==
    [result |-> r.result,
     db |-> [db EXCEPT !.shoppingLists = r.shoppingLists, !.items = r.items]]

\* the resolver of the mutation of the request, run for the user
Resolve(db, user, q) ==
    CASE q.op = "createFamily" ->
            AfterFamily(db, CreateFamilyOp(db.families, db.members, user, q.name))
      [] q.op = "updateFamily" ->
            AfterFamily(db, UpdateFamilyOp(db.families, db.members, user, q.id, q.input))
      [] q.op = "inviteMember" ->
            AfterFamily(db, InviteMemberOp(db.families, db.members, user, q.familyId,
                                           q.input))
      [] q.op = "updateMember" ->
            AfterFamily(db, UpdateMemberOp(db.families, db.members, user, q.familyId,
                                           q.memberId, q.input))
      [] q.op = "removeMember" ->
            AfterFamily(db, RemoveMemberOp(db.families, db.members, user, q.familyId,
                                           q.memberId))
      [] q.op = "leaveFamily" ->
            AfterFamily(db, LeaveFamilyOp(db.families, db.members, user, q.familyId))
      [] q.op = "deleteFamily" ->
            AfterFamily(db, DeleteFamilyOp(db.families, db.members, user, q.id))
      [] q.op = "createBudget" ->
            AfterBudget(db, CreateBudgetOp(db.categories, db.members, db.budgets,
                                           db.transactions, user, q.input, BudgetIds))
      [] q.op = "updateBudget" ->
            AfterBudget(db, UpdateBudgetOp(db.budgets, db.transactions, user, q.id,
                                           q.input))
      [] q.op = "deleteBudget" ->
            AfterBudget(db, DeleteBudgetOp(db.budgets, user, q.id))
      [] q.op = "createTransaction" ->
            AfterTransaction(db, CreateTransactionOp(db.categories, db.members,
                                                     db.transactions, user, q.input,
                                                     TransactionIds))
      [] q.op = "updateTransaction" ->
            AfterTransaction(db, UpdateTransactionOp(db.categories, db.transactions, user,
                                                     q.id, q.input))
      [] q.op = "deleteTransaction" ->
            AfterTransaction(db, DeleteTransactionOp(db.transactions, user, q.id))
      [] q.op = "createCategory" ->
            AfterCategory(db, CreateCategoryOp(db.categories, db.transactions, user,
                                               q.input, CategoryIds))
      [] q.op = "updateCategory" ->
            AfterCategory(db, UpdateCategoryOp(db.categories, db.transactions, user, q.id,
                                               q.input))
      [] q.op = "deleteCategory" ->
            AfterCategory(db, DeleteCategoryOp(db.categories, db.transactions, db.budgets,
                                               user, q.id, q.moveTransactionsTo))
      [] q.op = "addShoppingListItem" ->
            AfterItem(db, AddShoppingListItemOp(db.shoppingLists, db.items, db.categories,
                                                db.transactions, user, q.listId, q.input,
                                                ItemIds))
      [] q.op = "markItemPurchased" ->
            AfterItem(db, MarkItemPurchasedOp(db.shoppingLists, db.items, db.transactions,
                                              user, q.itemId, q.input, TransactionIds, 0))
      [] q.op = "removeShoppingListItem" ->
            AfterList(db, RemoveShoppingListItemOp(db.shoppingLists, db.items, user,
                                                   q.itemId))
      [] q.op = "deleteShoppingList" ->
            AfterList(db, DeleteShoppingListOp(db.shoppingLists, db.items, user, q.id))

\* a mutation marked Authorized, requested with the header: the context is
\* built, the authChecker decides, the resolver checks ctx.user and runs
Mutation(db, header, q) ==
    IF ~AuthChecker(ContextUser(header))
    THEN [result |-> AccessDenied, db |-> db]
    ELSE IF ContextUser(header) = NoUser
    THEN [result |-> AppError(<<"User not authenticated">>, 401, "APP_ERROR"), db |-> db]
    ELSE Resolve(db, ContextUser(header), q)

----------------------------------------------------------------------------
(* Requests of the authentication specification: one of each mutation *)

MutationRequests ==
    {[op |-> "createFamily", name |-> <<"H">>],
     [op |-> "updateFamily", id |-> 1, input |-> [name |-> <<" ", "H", " ">>]],
     [op |-> "inviteMember", familyId |-> 1,
      input |-> [email |-> UserEmail["u2"], role |-> "MEMBER", permissions |-> {}]],
     [op |-> "updateMember", familyId |-> 1, memberId |-> MemberId(1, "u2"),
      input |-> [role |-> "ADMIN"]],
     [op |-> "removeMember", familyId |-> 1, memberId |-> MemberId(1, "u2")],
     [op |-> "leaveFamily", familyId |-> 1],
     [op |-> "deleteFamily", id |-> 1],
     [op |-> "createBudget",
      input |-> [categoryId |-> 1, amount |-> 5, period |-> "MONTHLY", startDate |-> 0,
                 familyId |-> 1]],
     [op |-> "updateBudget", id |-> 1, input |-> [period |-> "YEARLY"]],
     [op |-> "deleteBudget", id |-> 1],
     [op |-> "createTransaction",
      input |-> [amount |-> 4, description |-> <<"d">>, type |-> "EXPENSE", date |-> 0,
                 categoryId |-> 1, familyId |-> NoFamily]],
     [op |-> "updateTransaction", id |-> 1, input |-> [categoryId |-> 2]],
     [op |-> "deleteTransaction", id |-> 1],
     [op |-> "createCategory",
      input |-> [name |-> <<"B">>, color |-> ValidColor, type |-> "EXPENSE"]],
     [op |-> "updateCategory", id |-> 1, input |-> [name |-> <<"B", " ">>]],
     [op |-> "deleteCategory", id |-> 1, moveTransactionsTo |-> 2],
     [op |-> "addShoppingListItem", listId |-> 1,
      input |-> [name |-> <<"i">>, estimatedPrice |-> 3, categoryId |-> 2]],
     [op |-> "markItemPurchased", itemId |-> 1, input |-> [createTransaction |-> TRUE]],
     [op |-> "removeShoppingListItem", itemId |-> 1],
     [op |-> "deleteShoppingList", id |-> 1]}

\* the id pool of the table that the request inserts into has an id left
HasRoom(db, q) ==
    CASE q.op = "createFamily" -> FreshId(db.families, FamilyPool) # 0
      [] q.op = "createBudget" -> FreshId(db.budgets, BudgetIds) # 0
      [] q.op \in {"createTransaction", "markItemPurchased"} ->
            FreshId(db.transactions, TransactionIds) # 0
      [] q.op = "createCategory" -> FreshId(db.categories, CategoryIds) # 0
      [] q.op = "addShoppingListItem" -> FreshId(db.items, ItemIds) # 0
      [] OTHER -> TRUE

\* a mutation request with the header is answered
Mutate(header, q) ==
    /\ HasRoom(Database, q)
    /\ LET r == Mutation(Database, header, q)
       IN /\ families' = r.db.families
          /\ members' = r.db.members
          /\ categories' = r.db.categories
          /\ budgets' = r.db.budgets
          /\ transactions' = r.db.transactions
          /\ shoppingLists' = r.db.shoppingLists
          /\ items' = r.db.items
          /\ last' = [op |-> q.op, result |-> r.result]
          /\ UNCHANGED <<reqs, users>>

\* the header with the verified token of u1
TokenOfU1 == [present |-> TRUE, userId |-> "u1", verified |-> TRUE]

\* the mutations that u1 requests in this specification: those that store rows
StoringRequests ==
    {q \in MutationRequests :
        q.op \in {"inviteMember", "createBudget", "createTransaction", "createCategory",
                  "addShoppingListItem", "markItemPurchased"}}

NextAuth ==
    \/ \E q \in StoringRequests : Mutate(TokenOfU1, q)
    \/ \E header \in Headers \ {TokenOfU1}, q \in MutationRequests : Mutate(header, q)

SpecAuth == InitShop /\ [][NextAuth]_vars

----------------------------------------------------------------------------
(* Properties of authentication *)

----------------------------------------------------------------------------
(* Startup: connectDatabase (utils) and FinTrackServer.connectDatabases.     *)
(* reqs[1] is a call of connectDatabase(retries), reqs[2] the start of the   *)
(* server; every prisma.$connect(), redis.connect() and redis.ping()         *)
(* succeeds or fails as the environment chooses.                             *)

MaxRetries == 5         \* connectDatabase is called with 0..MaxRetries retries

DefaultRetries == 5

\* Math.pow(2, i)
RECURSIVE Pow2(_)
Pow2(i) == IF i = 0 THEN 1 ELSE 2 * Pow2(i - 1)

\* one attempt of the loop body of connectDatabase: `await prisma.$connect()`
\* and, when it fails, the throw after the last attempt
ConnectDatabaseAttempt(ok) ==
    /\ reqs[1].pc = "loop"
    /\ reqs[1].i < reqs[1].retries
    /\ reqs' = [reqs EXCEPT ![1] =
                    [@ EXCEPT !.attempts = @ + 1,
                              !.pc = IF ok THEN "returned"
                                     ELSE IF reqs[1].i = reqs[1].retries - 1
                                     THEN "thrown" ELSE "wait"]]
    /\ UNCHANGED <<families, members, categories, budgets, transactions, shoppingLists,
                   items, last, users>>

\* the loop condition is false: the function returns
ConnectDatabaseExit ==
    /\ reqs[1].pc = "loop"
    /\ ~(reqs[1].i < reqs[1].retries)
    /\ reqs' = [reqs EXCEPT ![1] = [@ EXCEPT !.pc = "returned"]]
    /\ UNCHANGED <<families, members, categories, budgets, transactions, shoppingLists,
                   items, last, users>>

\* the timer of Math.pow(2, i) seconds has fired; i++
ConnectDatabaseWait ==
    /\ reqs[1].pc = "wait"
    /\ reqs' = [reqs EXCEPT ![1] =
                    [@ EXCEPT !.waited = Append(@, Pow2(reqs[1].i)),
                              !.i = @ + 1,
                              !.pc = "loop"]]
    /\ UNCHANGED <<families, members, categories, budgets, transactions, shoppingLists,
                   items, last, users>>

\* FinTrackServer.connectDatabases: `await this.prisma.$connect()`
StartPrismaConnect(ok) ==
    /\ reqs[2].pc = "prisma"
    /\ reqs' = [reqs EXCEPT ![2] =
                    [@ EXCEPT !.attempts = @ + 1,
                              !.pc = IF ok THEN "redis" ELSE "prismaFailed"]]
    /\ UNCHANGED <<families, members, categories, budgets, transactions, shoppingLists,
                   items, last, users>>

\* FinTrackServer.connectDatabases: `await this.redis.connect()`
StartRedisConnect(ok) ==
    /\ reqs[2].pc = "redis"
    /\ reqs' = [reqs EXCEPT ![2] = [@ EXCEPT !.pc = IF ok THEN "ping" ELSE "redisFailed"]]
    /\ UNCHANGED <<families, members, categories, budgets, transactions, shoppingLists,
                   items, last, users>>

\* FinTrackServer.connectDatabases: `await this.redis.ping()`
StartRedisPing(ok) ==
    /\ reqs[2].pc = "ping"
    /\ reqs' = [reqs EXCEPT ![2] =
                    [@ EXCEPT !.pc = IF ok THEN "connected" ELSE "redisFailed"]]
    /\ UNCHANGED <<families, members, categories, budgets, transactions, shoppingLists,
                   items, last, users>>

InitStart ==
    /\ families = {}
    /\ members = {}
    /\ categories = {}
    /\ budgets = {}
    /\ transactions = {}
    /\ shoppingLists = {}
    /\ items = {}
    /\ \E retries \in 0..MaxRetries :
            reqs = <<[pc |-> "loop", retries |-> retries, i |-> 0, attempts |-> 0,
                      waited |-> <<>>],
                     [pc |-> "prisma", attempts |-> 0]>>
    /\ users = UsersTable
    /\ last = NoRequest

NextStart ==
    \/ \E ok \in BOOLEAN : ConnectDatabaseAttempt(ok)
    \/ ConnectDatabaseExit
    \/ ConnectDatabaseWait
    \/ \E ok \in BOOLEAN : StartPrismaConnect(ok)
    \/ \E ok \in BOOLEAN : StartRedisConnect(ok)
    \/ \E ok \in BOOLEAN : StartRedisPing(ok)

SpecStart == InitStart /\ [][NextStart]_vars

\* the steps of connectDatabase are taken when they can be
SpecStartFair ==
    /\ SpecStart
    /\ WF_vars(\E ok \in BOOLEAN : ConnectDatabaseAttempt(ok))
    /\ WF_vars(ConnectDatabaseExit)
    /\ WF_vars(ConnectDatabaseWait)

----------------------------------------------------------------------------
(* Properties of the startup *)

\* connectDatabase(retries) makes at most retries attempts, returns as soon
\* as one succeeds, waits 2^i seconds after the failure of attempt i before
\* the next, and throws after the retries-th consecutive failure
ConnectDatabaseBounded ==
    LET c == reqs[1]
    IN /\ c.attempts <= c.retries
       /\ c.waited = [k \in 1..Len(c.waited) |-> Pow2(k - 1)]
       /\ c.pc = "loop" => c.attempts = c.i /\ Len(c.waited) = c.i
       /\ c.pc = "wait" => c.attempts = c.i + 1 /\ Len(c.waited) = c.i
       /\ c.pc = "thrown" => c.attempts = c.retries /\ Len(c.waited) = c.retries - 1
       /\ c.pc = "returned" => c.attempts = Len(c.waited) + 1 \/ c.retries = 0

\* connectDatabase returns or throws in the end
ConnectDatabaseTerminates == <>(reqs[1].pc \in {"returned", "thrown"})

\* C21: connectDatabase(retries) makes at most retries attempts, waits 2^i
\* seconds after the failure of attempt i and throws after the retries-th
\* consecutive failure, and the startup connection of the server goes through
\* this bounded retry: the start gives up on the database only after it has
\* tried again.
C21_StartupRetries ==
    /\ ConnectDatabaseBounded
    /\ reqs[2].pc = "prismaFailed" => reqs[2].attempts > 1

----------------------------------------------------------------------------
(* UserResolver: register and login *)

MinPasswordLength == 6

\* bcrypt.hash(password, 12): a value that is not the password
Hash(password) == <<"$", "2", "b", "$">> \o password

\* bcrypt.compare(password, hash)
Compare(password, hash) == hash = Hash(password)

\* generateToken(user, expiresIn): a signed payload with the user's id
GenerateToken(user, expiresIn) == [userId |-> user.id, expiresIn |-> expiresIn]

\* user.findUnique({ where: { email } })
FindUserByEmail(us, email) == FindFirst({u \in us : u.email = email})

\* the AuthResponse of register and login: the user without the password,
\* a token and a refresh token
AuthResponse(user, expiresIn) ==
    [user |-> [id |-> user.id, email |-> user.email, name |-> user.name],
     token |-> GenerateToken(user, expiresIn),
     refreshToken |-> GenerateToken(user, "30d")]

RegisterOpCaseSensitive(us, input, ids) ==
    LET user == [id |-> FreshId(us, ids), name |-> Trim(input.name),
                 email |-> Trim(ToLowerCase(input.email)),
                 password |-> Hash(input.password)]
    IN IF input.email = <<>> \/ input.password = <<>> \/ input.name = <<>>
       THEN [result |-> AppError(<<"Missing required fields">>, 400, "VALIDATION_ERROR"),
             data |-> Null, users |-> us]
       ELSE IF Len(input.password) < MinPasswordLength
       THEN [result |-> AppError(<<"Password must be at least 6 characters long">>, 400,
                                 "VALIDATION_ERROR"),
             data |-> Null, users |-> us]
       ELSE IF FindUserByEmail(us, input.email) # Null
       THEN [result |-> AppError(<<"User with this email already exists">>, 409,
                                 "USER_EXISTS"),
             data |-> Null, users |-> us]
       ELSE IF \E u \in us : u.email = user.email
       THEN [result |-> PrismaP2002, data |-> Null, users |-> us]
       ELSE [result |-> Ok, data |-> AuthResponse(user, "7d"), users |-> us \cup {user}]

\* mutation register(input); users_email_key answers a second row of an
\* email with P2002
RegisterOp(us, input, ids) ==
    LET user == [id |-> FreshId(us, ids), name |-> Trim(input.name),
                 email |-> Trim(ToLowerCase(input.email)),
                 password |-> Hash(input.password)]
    IN IF input.email = <<>> \/ input.password = <<>> \/ input.name = <<>>
       THEN [result |-> AppError(<<"Missing required fields">>, 400, "VALIDATION_ERROR"),
             data |-> Null, users |-> us]
       ELSE IF Len(input.password) < MinPasswordLength
       THEN [result |-> AppError(<<"Password must be at least 6 characters long">>, 400,
                                 "VALIDATION_ERROR"),
             data |-> Null, users |-> us]
       ELSE IF FindUserByEmail(us, ToLowerCase(input.email)) # Null
       THEN [result |-> AppError(<<"User with this email already exists">>, 409,
                                 "USER_EXISTS"),
             data |-> Null, users |-> us]
       ELSE IF \E u \in us : u.email = user.email
       THEN [result |-> PrismaP2002, data |-> Null, users |-> us]
       ELSE [result |-> Ok, data |-> AuthResponse(user, "7d"), users |-> us \cup {user}]

InvalidCredentials == AppError(<<"Invalid email or password">>, 401, "INVALID_CREDENTIALS")

LoginOpUserNotFound(us, input) ==
    LET user == FindUserByEmail(us, ToLowerCase(input.email))
    IN IF input.email = <<>> \/ input.password = <<>>
       THEN [result |-> AppError(<<"Email and password are required">>, 400,
                                 "VALIDATION_ERROR"),
             data |-> Null]
       ELSE IF user = Null
       THEN [result |-> AppError(<<"User not found">>, 404, "APP_ERROR"), data |-> Null]
       ELSE IF ~Compare(input.password, user.password)
       THEN [result |-> InvalidCredentials, data |-> Null]
       ELSE [result |-> Ok,
             data |-> AuthResponse(user, IF Has(input, "rememberMe") /\ input.rememberMe
                                         THEN "30d" ELSE "7d")]

\* mutation login(input)
LoginOp(us, input) ==
    LET user == FindUserByEmail(us, ToLowerCase(input.email))
    IN IF input.email = <<>> \/ input.password = <<>>
       THEN [result |-> AppError(<<"Email and password are required">>, 400,
                                 "VALIDATION_ERROR"),
             data |-> Null]
       ELSE IF user = Null
       THEN [result |-> InvalidCredentials, data |-> Null]
       ELSE IF ~Compare(input.password, user.password)
       THEN [result |-> InvalidCredentials, data |-> Null]
       ELSE [result |-> Ok,
             data |-> AuthResponse(user, IF Has(input, "rememberMe") /\ input.rememberMe
                                         THEN "30d" ELSE "7d")]

----------------------------------------------------------------------------
(* Requests of the user specification *)

MaxUsers == 3           \* ids in the pool of table "users"

UserIds == 1..MaxUsers

GoodPassword == <<"s", "e", "c", "r", "e", "t">>

RegisterInputs ==
    LET base == [email |-> <<"a", "@", "x", ".", "y">>, password |-> GoodPassword,
                 name |-> <<"n">>]
    IN {base,
        [base EXCEPT !.email = <<"A", "@", "X", ".", "y">>],
        [base EXCEPT !.email = <<"a", "@", "x", ".", "y", " ">>],
        [base EXCEPT !.email = <<"b", "@", "x", ".", "y">>],
        [base EXCEPT !.email = <<"b", "x", ".", "y">>],
        [base EXCEPT !.email = <<>>],
        [base EXCEPT !.password = <<>>],
        [base EXCEPT !.password = <<"s">>],
        [base EXCEPT !.name = <<>>],
        [base EXCEPT !.name = <<" ">>]}

LoginInputs ==
    {[email |-> e, password |-> p] :
        e \in {<<"a", "@", "x", ".", "y">>, <<"A", "@", "x", ".", "y">>,
               <<"c", "@", "x", ".", "y">>, <<>>},
        p \in {GoodPassword, <<"w", "r", "o", "n", "g", "!">>, <<>>}}
    \cup {[email |-> <<"a", "@", "x", ".", "y">>, password |-> GoodPassword,
           rememberMe |-> TRUE]}

\* the users table after register or login and the record of the request
HandledUser(op, r, us) ==
    /\ users' = us
    /\ last' = [op |-> op, result |-> r.result]
    /\ UNCHANGED <<families, members, categories, budgets, transactions, shoppingLists,
                   items, reqs>>

Register(input) ==
    /\ FreshId(users, UserIds) # 0
    /\ LET r == RegisterOp(users, input, UserIds) IN HandledUser("register", r, r.users)

Login(input) ==
    /\ input \in LoginInputs
    /\ HandledUser("login", LoginOp(users, input), users)

InitUser ==
    /\ families = {}
    /\ members = {}
    /\ categories = {}
    /\ budgets = {}
    /\ transactions = {}
    /\ shoppingLists = {}
    /\ items = {}
    /\ users = {}
    /\ reqs = <<>>
    /\ last = NoRequest

NextUser ==
    \/ \E input \in RegisterInputs : Register(input)
    \/ \E input \in LoginInputs : Login(input)

SpecUser == InitUser /\ [][NextUser]_vars

----------------------------------------------------------------------------
(* Properties of register and login *)

C23_RegisterValidates ==
    \A input \in RegisterInputs :
        (\/ input.email = <<>>
         \/ input.password = <<>>
         \/ input.name = <<>>
         \/ ~EmailRegexTest(input.email))
        => LET r == RegisterOp(users, input, UserIds)
           IN r.result.code # "OK" /\ r.users = users

----------------------------------------------------------------------------
(* Further properties of the family resolvers *)

\* C25 as stated: updateMember on the caller's own membership fails with
\* SELF_MODIFICATION and changes nothing.
C25_SelfAlwaysSelfModification ==
    \A caller \in Users, f \in FamilyIds, memberId \in MemberIds,
       input \in UpdateMemberInputs :
        LET member == FindMemberById(members, memberId, f)
            r == UpdateMemberOp(families, members, caller, f, memberId, input)
        IN (member # Null /\ member.userId = caller)
           => r.result.code = "SELF_MODIFICATION" /\ r.members = members

\* C25: updateMember never changes the caller's own membership: when the
\* target membership's userId is the caller's id it fails and changes
\* nothing, with SELF_MODIFICATION when the caller is ADMIN or holds
\* MANAGE_MEMBERS and with the permission error otherwise; no call changes a
\* row of the caller.
C25_NeverChangesOwnMembership ==
    \A caller \in Users, f \in FamilyIds, memberId \in MemberIds,
       input \in UpdateMemberInputs :
        LET member == FindMemberById(members, memberId, f)
            r == UpdateMemberOp(families, members, caller, f, memberId, input)
        IN /\ {m \in r.members : m.userId = caller} = {m \in members : m.userId = caller}
           /\ (member # Null /\ member.userId = caller)
              => /\ r.result.code # "OK"
                 /\ r.members = members
                 /\ r.families = families
                 /\ VerifyFamilyPermission(members, f, caller, "MANAGE_MEMBERS") = Ok
                    => r.result = AppError(<<"Cannot modify your own role or permissions">>,
                                           400, "SELF_MODIFICATION")

\* an updateMember was just refused with SELF_MODIFICATION in a family where
\* a member who is not ADMIN holds MANAGE_MEMBERS
C25_Witness ==
    /\ last.op = "updateMember"
    /\ last.result.code = "SELF_MODIFICATION"
    /\ \E m \in members : m.role # "ADMIN" /\ "MANAGE_MEMBERS" \in m.permissions

\* the memberships that are ADMIN in after and were not ADMIN rows of before
NewAdmins(before, after) ==
    {m \in after : m.role = "ADMIN" /\ \A o \in before : o.id = m.id => o.role # "ADMIN"}

\* C27: no membership acquires role ADMIN as the result of an inviteMember or
\* updateMember call made by a caller who is not ADMIN of that family at the
\* time of the call.
C27_OnlyAdminsMakeAdmins ==
    \A caller \in Users, f \in FamilyIds :
        (\A m \in members : m.familyId = f /\ m.userId = caller => m.role # "ADMIN")
        => /\ \A input \in InviteMemberInputs :
                NewAdmins(members,
                          InviteMemberOp(families, members, caller, f, input).members) = {}
           /\ \A memberId \in MemberIds, input \in UpdateMemberInputs :
                NewAdmins(members,
                          UpdateMemberOp(families, members, caller, f, memberId,
                                         input).members) = {}

----------------------------------------------------------------------------
(* Properties of deleteCategory *)

\* C26: deleteCategory on a category owned by the caller: with a transaction
\* of the caller in it and no moveTransactionsTo it fails with
\* CATEGORY_HAS_TRANSACTIONS and changes nothing; when moveTransactionsTo
\* names a category visible to the caller with the same type, all of the
\* caller's transactions in the category are re-pointed to the target;
\* whenever it returns true, the category is gone and no stored transaction
\* references it.  Default categories and categories of other users are
\* never deleted.
C26_DeleteCategory ==
    \A caller \in Users, c \in categories,
       to \in {NoCategory} \cup {x.id : x \in categories} :
        LET r == DeleteCategoryOp(categories, transactions, budgets, caller, c.id, to)
            own == {t \in transactions : t.categoryId = c.id /\ t.userId = caller}
            target == FindFirst({x \in categories : x.id = to})
        IN /\ (c.isDefault \/ c.userId # caller)
              => /\ r.result.code # "OK"
                 /\ r.categories = categories
                 /\ r.transactions = transactions
           /\ (c.userId = caller /\ own # {} /\ to = NoCategory)
              => /\ r.result.code = "CATEGORY_HAS_TRANSACTIONS"
                 /\ r.categories = categories
                 /\ r.transactions = transactions
           /\ (/\ c.userId = caller
               /\ own # {}
               /\ target # Null
               /\ (target.userId = caller \/ target.isDefault)
               /\ target.type = c.type)
              => /\ \A t \in own :
                        \E n \in r.transactions : n = [t EXCEPT !.categoryId = to]
                 /\ \A t \in transactions \ own : t \in r.transactions
                 /\ Cardinality(r.transactions) = Cardinality(transactions)
           /\ r.result.code = "OK"
              => /\ r.data = TRUE
                 /\ r.categories = categories \ {c}
                 /\ \A t \in r.transactions : t.categoryId # c.id

\* a deleteCategory with moveTransactionsTo just returned true: the category
\* of u1 is gone and the transaction that u1 created in it is in category 2
C26_Witness ==
    /\ last.op = "deleteCategory"
    /\ last.result.code = "OK"
    /\ \A c \in categories : c.id # 1
    /\ \E t \in transactions :
        t.userId = "u1" /\ t.categoryId = 2 /\ t.description = <<"d">>

----------------------------------------------------------------------------
(* Further properties of the shopping list resolver *)

\* C29: over any sequence of markItemPurchased calls on one item at most one
\* transaction is ever generated for it, and a generated transaction is the
\* one the item references: a call on an item that already references a
\* stored transaction generates no further transaction, and a stored
\* transaction generated for an item is referenced by it.
C29_OneTransactionPerItem ==
    /\ \A caller \in Users, item \in items, input \in MarkItemPurchasedInputs :
        LET r == MarkItemPurchasedOp(shoppingLists, items, transactions, caller, item.id,
                                     input, TransactionIds, 0)
        IN (/\ FreshId(transactions, TransactionIds) # 0
            /\ \E t \in transactions : t.id = item.transactionId)
           => r.transactions = transactions
    /\ \A item \in items, t \in transactions :
        t.description = <<"S">> \o item.name => item.transactionId = t.id

----------------------------------------------------------------------------
(* Concurrent removeMember and leaveFamily requests: the reads and checks of *)
(* a request and its familyMember.delete are separate awaited statements     *)

PrismaP2025 == [status |-> 400, code |-> "P2025", message |-> <<"Record not found">>]

\* the family of u1 after u1 invited u2 as ADMIN and u3 as MEMBER
SeedMembers ==
    LET two == InviteMemberOp(SeedFamily.families, SeedFamily.members, "u1", 1,
                              [email |-> UserEmail["u2"], role |-> "ADMIN",
                               permissions |-> {}])
    IN InviteMemberOp(two.families, two.members, "u1", 1,
                      [email |-> UserEmail["u3"], role |-> "MEMBER", permissions |-> {}])

\* removeMember up to the admin count: the member is read, the caller is
\* verified and the admins are counted; the row to delete is remembered
RemoveMemberChecked(i, caller, familyId, memberId) ==
    /\ reqs[i].pc = "idle"
    /\ LET check == RemoveMemberOp(families, members, caller, familyId, memberId).result
       IN /\ reqs' = [reqs EXCEPT ![i] =
                        IF check = Ok
                        THEN [pc |-> "checked", op |-> "removeMember", id |-> memberId]
                        ELSE [pc |-> "done"]]
          /\ last' = IF check = Ok THEN last
                     ELSE [op |-> "removeMember", result |-> check]
    /\ UNCHANGED <<families, members, categories, budgets, transactions, shoppingLists,
                   items, users>>

\* leaveFamily up to the admin count
LeaveFamilyChecked(i, caller, familyId) ==
    /\ reqs[i].pc = "idle"
    /\ LET check == LeaveFamilyOp(families, members, caller, familyId).result
       IN /\ reqs' = [reqs EXCEPT ![i] =
                        IF check = Ok
                        THEN [pc |-> "checked", op |-> "leaveFamily",
                              id |-> FindMembership(members, familyId, caller).id]
                        ELSE [pc |-> "done"]]
          /\ last' = IF check = Ok THEN last
                     ELSE [op |-> "leaveFamily", result |-> check]
    /\ UNCHANGED <<families, members, categories, budgets, transactions, shoppingLists,
                   items, users>>

\* prisma.familyMember.delete({ where: { id } }) of a checked request
MemberDeleted(i) ==
    /\ reqs[i].pc = "checked"
    /\ members' = {m \in members : m.id # reqs[i].id}
    /\ last' = [op |-> reqs[i].op,
                result |-> IF \E m \in members : m.id = reqs[i].id
                           THEN Ok ELSE PrismaP2025]
    /\ reqs' = [reqs EXCEPT ![i] = [pc |-> "done"]]
    /\ UNCHANGED <<families, categories, budgets, transactions, shoppingLists, items,
                   users>>

InitLeave ==
    /\ families = SeedMembers.families
    /\ members = SeedMembers.members
    /\ categories = {}
    /\ budgets = {}
    /\ transactions = {}
    /\ shoppingLists = {}
    /\ items = {}
    /\ users = UsersTable
    /\ reqs = [i \in RequestIds |-> [pc |-> "idle"]]
    /\ last = NoRequest

NextLeave ==
    \E i \in RequestIds :
        \/ \E caller \in Users, memberId \in MemberIds :
                RemoveMemberChecked(i, caller, 1, memberId)
        \/ \E caller \in Users : LeaveFamilyChecked(i, caller, 1)
        \/ MemberDeleted(i)

SpecLeave == InitLeave /\ [][NextLeave]_vars

\* C28: when removeMember and leaveFamily requests of one family run
\* concurrently, the admin count and the delete of each request being
\* separate steps, the family has at least one ADMIN member in every
\* reachable state.
C28_AdminSurvivesConcurrentLeaves ==
    \A f \in families : AdminCount(members, f.id) >= 1

----------------------------------------------------------------------------
(* Shopping lists: creation, sharing, update and the reads of a list *)

MaxShoppingListNameLength == 100

MaxLists == 1           \* ids in the pool of table "shopping_lists"

ListIds == 1..MaxLists

\* [...new Set(array)]: the first occurrence of every element, in order
RECURSIVE ArrayUnique(_)
ArrayUnique(array) ==
    IF array = <<>> THEN <<>>
    ELSE LET front == ArrayUnique(SubSeq(array, 1, Len(array) - 1))
             end == array[Len(array)]
         IN IF end \in Range(front) THEN front ELSE Append(front, end)

\* array.filter(email => email !== own)
RECURSIVE ArrayWithout(_, _)
ArrayWithout(array, own) ==
    IF array = <<>> THEN <<>>
    ELSE IF Head(array) = own THEN ArrayWithout(Tail(array), own)
    ELSE <<Head(array)>> \o ArrayWithout(Tail(array), own)

\* a shopping list response: the result, the data and the tables afterwards
ListReply(lists, its, result, data) ==
    [result |-> result, data |-> data, shoppingLists |-> lists, items |-> its]

\* mutation createShoppingList(input); input.shared and input.sharedWith carry
\* their defaults (false, []) when the request leaves them out
CreateShoppingListOp(lists, its, mem, caller, input, ids) ==
    LET invalid == {i \in 1..Len(input.sharedWith) :
                        ~EmailRegexTest(input.sharedWith[i])}
        sharedWith == IF input.shared /\ Len(input.sharedWith) > 0
                      THEN ArrayWithout(ArrayUnique(input.sharedWith), UserEmail[caller])
                      ELSE input.sharedWith
        list == [id |-> FreshId(lists, ids), userId |-> caller,
                 familyId |-> input.familyId, name |-> Trim(input.name),
                 shared |-> input.shared, sharedWith |-> sharedWith]
    IN IF Trim(input.name) = <<>>
       THEN ListReply(lists, its,
                AppError(<<"Shopping list name is required">>, 400, "VALIDATION_ERROR"),
                Null)
       ELSE IF Len(Trim(input.name)) > MaxShoppingListNameLength
       THEN ListReply(lists, its,
                AppError(<<"Shopping list name must be 100 characters or less">>, 400,
                         "VALIDATION_ERROR"),
                Null)
       ELSE IF input.familyId # NoFamily
               /\ FindMembership(mem, input.familyId, caller) = Null
       THEN ListReply(lists, its, AppError(<<"Access denied to family">>, 403, "APP_ERROR"),
                      Null)
       ELSE IF input.shared /\ Len(input.sharedWith) > 0 /\ invalid # {}
       THEN ListReply(lists, its,
                AppError(<<"Invalid email address">>, 400, "VALIDATION_ERROR"), Null)
       ELSE ListReply(lists \cup {list}, its, Ok, list)

\* mutation updateShoppingList(id, input): the owner's list with the fields
\* of the input written over it
UpdateShoppingListOp(lists, its, caller, id, input) ==
    LET existingList == FindFirst({l \in lists : l.id = id /\ l.userId = caller})
        invalid == {i \in 1..Len(input.sharedWith) :
                        ~EmailRegexTest(input.sharedWith[i])}
        list == [existingList EXCEPT
                    !.name = IF Has(input, "name") THEN Trim(input.name) ELSE @,
                    !.shared = IF Has(input, "shared") THEN input.shared ELSE @,
                    !.sharedWith =
                        IF Has(input, "sharedWith")
                        THEN ArrayWithout(ArrayUnique(input.sharedWith), UserEmail[caller])
                        ELSE @]
    IN IF existingList = Null
       THEN ListReply(lists, its,
                AppError(<<"Shopping list not found or access denied">>, 404, "APP_ERROR"),
                Null)
       ELSE IF Has(input, "name") /\ Trim(input.name) = <<>>
       THEN ListReply(lists, its,
                AppError(<<"Shopping list name cannot be empty">>, 400, "VALIDATION_ERROR"),
                Null)
       ELSE IF Has(input, "name") /\ Len(Trim(input.name)) > MaxShoppingListNameLength
       THEN ListReply(lists, its,
                AppError(<<"Shopping list name must be 100 characters or less">>, 400,
                         "VALIDATION_ERROR"),
                Null)
       ELSE IF Has(input, "sharedWith") /\ Len(input.sharedWith) > 0 /\ invalid # {}
       THEN ListReply(lists, its,
                AppError(<<"Invalid email address">>, 400, "VALIDATION_ERROR"), Null)
       ELSE ListReply((lists \ {existingList}) \cup {list}, its, Ok, list)

\* query shoppingList(id): the list, or null when the caller neither owns it
\* nor finds their email in sharedWith
ShoppingListQuery(lists, its, caller, id) ==
    ListReply(lists, its, Ok, FindAccessibleList(lists, id, caller))

\* mutation updateShoppingListItem(itemId, input)
UpdateShoppingListItemOp(lists, its, cats, caller, itemId, input) ==
    LET item == FindFirst({i \in its : i.id = itemId})
        shoppingList == FindFirst({l \in lists : l.id = item.listId})
        hasAccess == \/ shoppingList.userId = caller
                     \/ UserEmail[caller] \in Range(shoppingList.sharedWith)
        category == FindFirst({c \in cats :
                        c.id = input.categoryId /\ (c.userId = caller \/ c.isDefault)})
        updated == [item EXCEPT
                        !.name = IF Has(input, "name") THEN Trim(input.name) ELSE @,
                        !.estimatedPrice = IF Has(input, "estimatedPrice")
                                           THEN input.estimatedPrice ELSE @,
                        !.categoryId = IF Has(input, "categoryId")
                                       THEN input.categoryId ELSE @]
    IN IF item = Null
       THEN ListReply(lists, its,
                AppError(<<"Shopping list item not found">>, 404, "APP_ERROR"), Null)
       ELSE IF ~hasAccess
       THEN ListReply(lists, its,
                AppError(<<"Access denied to shopping list item">>, 403, "APP_ERROR"), Null)
       ELSE IF Has(input, "name") /\ Trim(input.name) = <<>>
       THEN ListReply(lists, its,
                AppError(<<"Item name cannot be empty">>, 400, "VALIDATION_ERROR"), Null)
       ELSE IF Has(input, "estimatedPrice") /\ input.estimatedPrice < 0
       THEN ListReply(lists, its,
                AppError(<<"Estimated price cannot be negative">>, 400, "VALIDATION_ERROR"),
                Null)
       ELSE IF Has(input, "categoryId") /\ input.categoryId # NoCategory
               /\ category = Null
       THEN ListReply(lists, its, AppError(<<"Category not found">>, 404, "APP_ERROR"),
                      Null)
       ELSE ListReply(lists, (its \ {item}) \cup {updated}, Ok, updated)

\* the sharedWith arrays of the requests: nobody, u2, u2 twice, the caller's
\* own email next to u2's, and a string that is no email
SharedWithArrays ==
    {<<>>, <<UserEmail["u2"]>>, <<UserEmail["u2"], UserEmail["u2"]>>,
     <<UserEmail["u1"], UserEmail["u2"]>>, <<<<"b">>>>}

CreateShoppingListInputs ==
    {[name |-> <<"L">>, shared |-> s, sharedWith |-> w, familyId |-> NoFamily] :
        s \in BOOLEAN, w \in SharedWithArrays}
    \cup {[name |-> n, shared |-> FALSE, sharedWith |-> <<>>, familyId |-> f] :
            n \in {<<"L">>, <<" ">>, LongName}, f \in {NoFamily, 1}}

UpdateShoppingListInputs ==
    {[shared |-> s] : s \in BOOLEAN}
    \cup {[sharedWith |-> w] : w \in SharedWithArrays}
    \cup {[name |-> n] : n \in {<<"M">>, <<" ">>, LongName}}

UpdateItemInputs ==
    {[name |-> <<"j">>], [name |-> <<" ">>], [estimatedPrice |-> -1],
     [categoryId |-> 4], [categoryId |-> 9]}

ListItemInputs == {[name |-> <<"i">>, estimatedPrice |-> 3, categoryId |-> 2]}

ListPurchaseInputs == {[actualPrice |-> 0, createTransaction |-> FALSE]}

\* the tables after a shopping list operation and the record of the request
HandledList(op, r) ==
    /\ shoppingLists' = r.shoppingLists
    /\ items' = r.items
    /\ last' = [op |-> op, result |-> r.result]
    /\ UNCHANGED <<families, members, categories, budgets, transactions, reqs, users>>

CreateShoppingList(caller, input) ==
    /\ FreshId(shoppingLists, ListIds) # 0
    /\ HandledList("createShoppingList",
            CreateShoppingListOp(shoppingLists, items, members, caller, input, ListIds))

UpdateShoppingList(caller, id, input) ==
    HandledList("updateShoppingList",
        UpdateShoppingListOp(shoppingLists, items, caller, id, input))

DeleteShoppingList(caller, id) ==
    HandledList("deleteShoppingList", DeleteShoppingListOp(shoppingLists, items, caller, id))

ShoppingList(caller, id) ==
    HandledList("shoppingList", ShoppingListQuery(shoppingLists, items, caller, id))

UpdateShoppingListItem(caller, itemId, input) ==
    HandledList("updateShoppingListItem",
        UpdateShoppingListItemOp(shoppingLists, items, categories, caller, itemId, input))

RemoveShoppingListItem(caller, itemId) ==
    HandledList("removeShoppingListItem",
        RemoveShoppingListItemOp(shoppingLists, items, caller, itemId))

InitList ==
    /\ families = SeedFamily.families
    /\ members = SeedFamily.members
    /\ categories = ShopCategories
    /\ budgets = {}
    /\ transactions = {}
    /\ shoppingLists = {}
    /\ items = {}
    /\ reqs = <<>>
    /\ users = UsersTable
    /\ last = NoRequest

ListCallers == {"u1", "u2"}

NextList ==
    \/ \E input \in CreateShoppingListInputs : CreateShoppingList("u1", input)
    \/ \E input \in {i \in CreateShoppingListInputs : i.familyId # NoFamily} :
            CreateShoppingList("u2", input)
    \/ \E caller \in ListCallers, id \in ListIds :
        \/ \E input \in UpdateShoppingListInputs : UpdateShoppingList(caller, id, input)
        \/ DeleteShoppingList(caller, id)
        \/ ShoppingList(caller, id)
        \/ \E input \in ListItemInputs : AddShoppingListItem(caller, id, input)
    \/ \E caller \in ListCallers, itemId \in ItemIds :
        \/ \E input \in UpdateItemInputs : UpdateShoppingListItem(caller, itemId, input)
        \/ \E input \in ListPurchaseInputs : MarkItemPurchased(caller, itemId, input, 0)
        \/ RemoveShoppingListItem(caller, itemId)

SpecList == InitList /\ [][NextList]_vars

\* the caller can read the list and add, update, mark purchased and remove
\* its items
CanUseList(caller, l) ==
    \/ ShoppingListQuery(shoppingLists, items, caller, l.id).data # Null
    \/ \E input \in ListItemInputs :
        AddShoppingListItemOp(shoppingLists, items, categories, transactions, caller,
                              l.id, input, ItemIds).result.code = "OK"
    \/ \E i \in items :
        /\ i.listId = l.id
        /\ \/ \E input \in UpdateItemInputs :
                UpdateShoppingListItemOp(shoppingLists, items, categories, caller, i.id,
                                         input).result.code = "OK"
           \/ \E input \in ListPurchaseInputs :
                MarkItemPurchasedOp(shoppingLists, items, transactions, caller, i.id,
                                    input, TransactionIds, 0).result.code = "OK"
           \/ RemoveShoppingListItemOp(shoppingLists, items, caller, i.id).result.code
                = "OK"

\* C30: a user who does not own a shopping list can read it or add, update,
\* mark purchased or remove its items only while the list's shared flag is
\* true and the user's email is in sharedWith; updateShoppingList and
\* deleteShoppingList succeed for the owner only; in every stored list
\* sharedWith contains no duplicate and never the owner's own email.
\* createShoppingList cleans sharedWith only when shared is true, and no
\* access check reads the shared flag, so this fails.
C30_SharedListsOnly ==
    /\ \A l \in shoppingLists :
        /\ \A i \in 1..Len(l.sharedWith), j \in 1..Len(l.sharedWith) :
                l.sharedWith[i] = l.sharedWith[j] => i = j
        /\ UserEmail[l.userId] \notin Range(l.sharedWith)
    /\ \A l \in shoppingLists, caller \in Users :
        caller # l.userId
        => /\ CanUseList(caller, l)
                => l.shared /\ UserEmail[caller] \in Range(l.sharedWith)
           /\ \A input \in UpdateShoppingListInputs :
                UpdateShoppingListOp(shoppingLists, items, caller, l.id, input).result.code
                    # "OK"
           /\ DeleteShoppingListOp(shoppingLists, items, caller, l.id).result.code # "OK"

\* what the code keeps of C30: updateShoppingList and deleteShoppingList
\* succeed for the owner only, and a user whose email is not in sharedWith
\* and who is not the owner cannot use the list
C30_OwnerOnlyUpdateAndDelete ==
    \A l \in shoppingLists, caller \in Users :
        caller # l.userId
        => /\ CanUseList(caller, l) => UserEmail[caller] \in Range(l.sharedWith)
           /\ \A input \in UpdateShoppingListInputs :
                UpdateShoppingListOp(shoppingLists, items, caller, l.id, input).result.code
                    # "OK"
           /\ DeleteShoppingListOp(shoppingLists, items, caller, l.id).result.code # "OK"

====
